---- MODULE Spec2Model ----
(***************************************************************************)
(* Model of the run reducer of snakemake-logger-plugin-json                *)
(* (src/snakemake_logger_plugin_json/stuff.py, RunStatus and JobInfo) and  *)
(* of the parts of the record model (models.py) the reducer reads.         *)
(*                                                                         *)
(* A RunStatus object is the tuple of variables logs, jobs, job_logs,      *)
(* workflow_id, snakefile, rulegraph.  Every handler registered on         *)
(* RunStatus.process_record is an operator from (self, record) to the      *)
(* object after the call and the error the call raised; one action per     *)
(* handler applies it to a record drawn from the handler's record class.   *)
(* calls is the history of process_record calls made on the object.        *)
(*                                                                         *)
(* The module also models the log reader of json.py: the object boundary   *)
(* parser JsonObjectParser (current_line, current_obj, current_started,    *)
(* with pcalls the history of calls made on it), the record decoder        *)
(* logrecord_from_json (decoded is the history of its calls) and the       *)
(* generator parse_logfile (lines, consumed, gen, yielded).  Each has a    *)
(* specification of its own in which the other components stay idle.       *)
(***************************************************************************)
EXTENDS Integers, Sequences, FiniteSets, TLC

VARIABLES logs, jobs, job_logs, workflow_id, snakefile, rulegraph, calls

\* JsonObjectParser: its attributes and the history of calls made on it.
VARIABLES current_line, current_obj, current_started, pcalls

\* logrecord_from_json: the history of calls made.
VARIABLES decoded

\* parse_logfile: the line source, the generator's status and what it has
\* handed to its consumer.
VARIABLES lines, consumed, gen, yielded

run_vars == <<logs, jobs, job_logs, workflow_id, snakefile, rulegraph, calls>>

parser_vars == <<current_line, current_obj, current_started, pcalls>>

reader_vars == <<lines, consumed, gen, yielded>>

\* A model registry filled by a registration decorator, and the history of
\* registrations made on it.
VARIABLES registry, rcalls

\* One record taken through dump_json and back.
VARIABLES trip

\* JsonLogHandler: whether it exists and is open, its multiline setting,
\* the lines in its file, the owner of its lock, the threads logging through
\* it (where each is, and the lines it has still to write), and the records
\* accepted, in order.
VARIABLES hstate, multiline, stream, lock, pc, towrite, emitted

registry_vars == <<registry, rcalls>>

handler_vars == <<hstate, multiline, stream, lock, pc, towrite, emitted>>

\* One call of the viewer's load_run: how far it is, the records its
\* generator has given it, the RunStatus it builds and the exception that
\* ended it.
VARIABLES loading

\* The builtin records given to one JsonFormatter through a stream handler,
\* each with what became of it, and the lines in the stream.
VARIABLES formatted

\* The variables of the reading side, with the viewer's load and the
\* formatter's calls, and of the writing side.
read_vars ==
    <<run_vars, parser_vars, decoded, reader_vars, loading, formatted>>

write_vars == <<registry_vars, trip, handler_vars>>

vars == <<read_vars, write_vars>>

\* Number of process_record calls explored on one RunStatus object.
MaxCalls == 3

\* ------------------------------------------------------------------------
\* Values
\* ------------------------------------------------------------------------

\* Python's None.  Optional values are None or a tagged tuple.
None == <<>>

\* Job ids, record timestamps (seconds), and payloads the records carry.
JobIds == {1, 2}
Times == {1, 2}
UUIDs == {<<"UUID", "u1">>, <<"UUID", "u2">>}
PurePaths == {<<"PurePath", "Snakefile">>}
Rulegraphs == {<<"dict", "empty">>, <<"dict", "g1">>}

\* Job id lists a JobStartedRecord carries: every list of one or two ids,
\* lists naming the same id twice included.
JobIdLists ==
    {<<a>> : a \in JobIds} \cup {<<a, b>> : a \in JobIds, b \in JobIds}

\* ------------------------------------------------------------------------
\* Record model (models.py)
\* ------------------------------------------------------------------------

\* One record class per way the reducer treats a record: two classes that
\* are not Snakemake-category (standard, meta), a Snakemake class without
\* job ids (ProgressRecord; ErrorRecord, GroupErrorRecord, ResourcesInfo-
\* Record, DebugDagRecord and RunInfoRecord are reduced the same way), one
\* with a list of ids (JobStartedRecord; GroupInfoRecord likewise), one with
\* an optional id (ShellCmdRecord; JobErrorRecord has the id required), and
\* the four classes with a handler of their own.  The reducer reads created
\* of JobInfo and JobFinished records only, so only they vary in it.

StandardLogRecords ==
    [cls : {"StandardLogRecord"}, type : {"standard"}, created : {1}]

LoggingStartedRecords ==
    [cls : {"LoggingStartedRecord"}, type : {"meta"}, created : {1}]

ProgressRecords ==
    [cls : {"ProgressRecord"}, type : {"snakemake"}, created : {1}]

WorkflowStartedRecords ==
    [cls : {"WorkflowStartedRecord"}, type : {"snakemake"}, created : {1},
     workflow_id : UUIDs, snakefile : PurePaths \cup {None}]

JobInfoRecords ==
    [cls : {"JobInfoRecord"}, type : {"snakemake"}, created : Times,
     jobid : JobIds, rule_name : {"rule"}, threads : {1}]

JobStartedRecords ==
    [cls : {"JobStartedRecord"}, type : {"snakemake"}, created : {1},
     jobs : JobIdLists]

JobFinishedRecords ==
    [cls : {"JobFinishedRecord"}, type : {"snakemake"}, created : Times,
     job_id : JobIds]

ShellCmdRecords ==
    [cls : {"ShellCmdRecord"}, type : {"snakemake"}, created : {1},
     jobid : {None} \cup {<<j>> : j \in JobIds}]

RulegraphRecords ==
    [cls : {"RulegraphRecord"}, type : {"snakemake"}, created : {1},
     rulegraph : Rulegraphs \cup {None}]

\* Records dispatched to _process_record_base: not Snakemake-category.
BaseRecords == StandardLogRecords \cup LoggingStartedRecords

\* Records dispatched to _process_snakemake_record: Snakemake-category
\* classes with no handler of their own.
SnakemakeRecords == ProgressRecords \cup JobStartedRecords \cup ShellCmdRecords

\* JsonLogRecord.created_dt: the timestamp as a datetime object.
created_dt(record) == <<"datetime", record.created>>

\* Truth value of an optional datetime: None is false, a datetime is true.
Truthy(value) == value # None

\* pathlib.Path(p) of a PurePath p: a concrete path of the same text.
Path(p) == <<"Path", p[2]>>

\* SnakemakeLogRecord.associated_jobs and its overrides.
associated_jobs(record) ==
    CASE record.cls = "JobInfoRecord" -> <<record.jobid>>
      [] record.cls = "JobStartedRecord" -> record.jobs
      [] record.cls = "JobFinishedRecord" -> <<record.job_id>>
      [] record.cls = "ShellCmdRecord" ->
            IF record.jobid = None THEN <<>> ELSE <<record.jobid[1]>>
      [] OTHER -> <<>>

\* ------------------------------------------------------------------------
\* Reducer (stuff.py)
\* ------------------------------------------------------------------------

\* JobInfo.from_record.  The optional payload fields (input, output, log,
\* benchmark, wildcards, priority) are copied like rule_name and threads.
from_record(record) ==
    [id |-> record.jobid,
     rule_name |-> record.rule_name,
     threads |-> record.threads,
     started |-> created_dt(record),
     finished |-> None,
     logs |-> <<record>>]

\* The RunStatus object held in the variables.
Self ==
    [logs |-> logs, jobs |-> jobs, job_logs |-> job_logs,
     workflow_id |-> workflow_id, snakefile |-> snakefile,
     rulegraph |-> rulegraph]

\* A handler's outcome: the object after the call and the error raised.
Return(self) == [state |-> self, error |-> "none"]
Raise(self, error) == [state |-> self, error |-> error]

\* Mutant of _process_record_base: the pending buffer is reset as well.
process_record_base_clears_pending(self, record) ==
    [self EXCEPT !.logs = Append(@, record), !.job_logs = <<>>]

\* Mutant of _process_record_base: the record is put at the front of logs.
process_record_base_prepend(self, record) ==
    [self EXCEPT !.logs = <<record>> \o @]

\* RunStatus._process_record_base
process_record_base(self, record) ==
    [self EXCEPT !.logs = Append(@, record)]

\* The loop of _process_snakemake_record over record.associated_jobs().
RECURSIVE add_to_jobs(_, _, _)
add_to_jobs(self, record, ids) ==
    IF ids = <<>> THEN self
    ELSE LET jobid == Head(ids)
             next ==
                IF jobid \in DOMAIN self.jobs
                THEN [self EXCEPT !.jobs[jobid].logs = Append(@, record)]
                ELSE IF jobid \in DOMAIN self.job_logs
                THEN [self EXCEPT !.job_logs[jobid] = Append(@, record)]
                ELSE [self EXCEPT !.job_logs = (jobid :> <<record>>) @@ @]
         IN add_to_jobs(next, record, Tail(ids))

\* Mutant of _process_snakemake_record: the loop stops after the first id.
process_snakemake_record_first_id(self, record, add_to_job) ==
    LET base == process_record_base(self, record)
    IN IF add_to_job
       THEN add_to_jobs(base, record,
                IF associated_jobs(record) = <<>> THEN <<>>
                ELSE <<Head(associated_jobs(record))>>)
       ELSE base

\* RunStatus._process_snakemake_record
process_snakemake_record(self, record, add_to_job) ==
    LET base == process_record_base(self, record)
    IN IF add_to_job
       THEN add_to_jobs(base, record, associated_jobs(record))
       ELSE base

\* dict.pop(key) on a dict held as a function.
pop(dict, key) == [k \in DOMAIN dict \ {key} |-> dict[k]]

\* Mutant of _process_job_info: the pending records are put ahead of the
\* JobInfo record in the new job's log list.
process_job_info_pending_first(self, record) ==
    IF record.jobid \in DOMAIN self.jobs
    THEN Raise(self, "Duplicate JOB_INFO event")
    ELSE LET job == from_record(record)
             created == [self EXCEPT !.jobs = (record.jobid :> job) @@ @]
             drained ==
                IF job.id \in DOMAIN created.job_logs
                THEN [created EXCEPT
                        !.jobs[job.id].logs = created.job_logs[job.id] \o @,
                        !.job_logs = pop(@, job.id)]
                ELSE created
         IN Return(process_snakemake_record(drained, record, FALSE))

\* Mutant of _process_job_info: no duplicate check, a later JobInfo record
\* replaces the job entity.
process_job_info_replace(self, record) ==
    LET job == from_record(record)
        created == [self EXCEPT !.jobs = (record.jobid :> job) @@ @]
        drained ==
            IF job.id \in DOMAIN created.job_logs
            THEN [created EXCEPT
                    !.jobs[job.id].logs = @ \o created.job_logs[job.id],
                    !.job_logs = pop(@, job.id)]
            ELSE created
    IN Return(process_snakemake_record(drained, record, FALSE))

\* Mutant of _process_job_info: the pending list is read with get, not pop.
process_job_info_keep_pending(self, record) ==
    IF record.jobid \in DOMAIN self.jobs
    THEN Raise(self, "Duplicate JOB_INFO event")
    ELSE LET job == from_record(record)
             created == [self EXCEPT !.jobs = (record.jobid :> job) @@ @]
             drained ==
                IF job.id \in DOMAIN created.job_logs
                THEN [created EXCEPT
                        !.jobs[job.id].logs = @ \o created.job_logs[job.id]]
                ELSE created
         IN Return(process_snakemake_record(drained, record, FALSE))

\* Mutant of _process_job_info: the pending list is popped and thrown away.
process_job_info_discards_pending(self, record) ==
    IF record.jobid \in DOMAIN self.jobs
    THEN Raise(self, "Duplicate JOB_INFO event")
    ELSE LET job == from_record(record)
             created == [self EXCEPT !.jobs = (record.jobid :> job) @@ @]
             drained ==
                IF job.id \in DOMAIN created.job_logs
                THEN [created EXCEPT !.job_logs = pop(@, job.id)]
                ELSE created
         IN Return(process_snakemake_record(drained, record, FALSE))

\* RunStatus._process_job_info
process_job_info(self, record) ==
    IF record.jobid \in DOMAIN self.jobs
    THEN Raise(self, "Duplicate JOB_INFO event")
    ELSE LET job == from_record(record)
             created == [self EXCEPT !.jobs = (record.jobid :> job) @@ @]
             drained ==
                IF job.id \in DOMAIN created.job_logs
                THEN [created EXCEPT
                        !.jobs[job.id].logs = @ \o created.job_logs[job.id],
                        !.job_logs = pop(@, job.id)]
                ELSE created
         IN Return(process_snakemake_record(drained, record, FALSE))

\* Mutant of _process_job_finished: the generic bookkeeping runs first, the
\* checks after it.
process_job_finished_bookkeeping_first(self, record) ==
    LET kept == process_snakemake_record(self, record, TRUE)
    IN IF record.job_id \notin DOMAIN self.jobs
       THEN Raise(kept, "JOB_FINISHED event before JOB_INFO")
       ELSE IF Truthy(self.jobs[record.job_id].finished)
       THEN Raise(kept, "Duplicate JOB_FINISHED event")
       ELSE Return([kept EXCEPT
                !.jobs[record.job_id].finished = created_dt(record)])

\* Mutant of _process_job_finished: a job with pending records counts as
\* known, and its JobFinished record is buffered with them.
process_job_finished_pending_known(self, record) ==
    IF record.job_id \notin DOMAIN self.jobs
    THEN IF record.job_id \in DOMAIN self.job_logs
         THEN Return(process_snakemake_record(self, record, TRUE))
         ELSE Raise(self, "JOB_FINISHED event before JOB_INFO")
    ELSE IF Truthy(self.jobs[record.job_id].finished)
    THEN Raise(self, "Duplicate JOB_FINISHED event")
    ELSE LET finished ==
                [self EXCEPT
                    !.jobs[record.job_id].finished = created_dt(record)]
         IN Return(process_snakemake_record(finished, record, TRUE))

\* Mutant of _process_job_finished: no duplicate check, a later JobFinished
\* record overwrites finished.
process_job_finished_overwrite(self, record) ==
    IF record.job_id \notin DOMAIN self.jobs
    THEN Raise(self, "JOB_FINISHED event before JOB_INFO")
    ELSE LET finished ==
                [self EXCEPT
                    !.jobs[record.job_id].finished = created_dt(record)]
         IN Return(process_snakemake_record(finished, record, TRUE))

\* RunStatus._process_job_finished
process_job_finished(self, record) ==
    IF record.job_id \notin DOMAIN self.jobs
    THEN Raise(self, "JOB_FINISHED event before JOB_INFO")
    ELSE IF Truthy(self.jobs[record.job_id].finished)
    THEN Raise(self, "Duplicate JOB_FINISHED event")
    ELSE LET finished ==
                [self EXCEPT
                    !.jobs[record.job_id].finished = created_dt(record)]
         IN Return(process_snakemake_record(finished, record, TRUE))

\* Mutant of _process_workflow_started: the duplicate check reads snakefile
\* instead of workflow_id.
process_workflow_started_checks_snakefile(self, record) ==
    IF self.snakefile # None
    THEN Raise(self, "Duplicate WORKFLOW_STARTED event")
    ELSE LET started == [self EXCEPT !.workflow_id = record.workflow_id]
             withfile ==
                IF record.snakefile # None
                THEN [started EXCEPT !.snakefile = Path(record.snakefile)]
                ELSE started
         IN Return(process_snakemake_record(withfile, record, TRUE))

\* RunStatus._process_workflow_started
process_workflow_started(self, record) ==
    IF self.workflow_id # None
    THEN Raise(self, "Duplicate WORKFLOW_STARTED event")
    ELSE LET started == [self EXCEPT !.workflow_id = record.workflow_id]
             withfile ==
                IF record.snakefile # None
                THEN [started EXCEPT !.snakefile = Path(record.snakefile)]
                ELSE started
         IN Return(process_snakemake_record(withfile, record, TRUE))

\* Mutant of _process_rulegraph: the record is logged before the duplicate
\* check.
process_rulegraph_logs_first(self, record) ==
    LET kept == process_snakemake_record(self, record, TRUE)
    IN IF self.rulegraph # None
       THEN Raise(kept, "Duplicate RULEGRAPH event")
       ELSE Return([kept EXCEPT !.rulegraph = record.rulegraph])

\* RunStatus._process_rulegraph
process_rulegraph(self, record) ==
    IF self.rulegraph # None
    THEN Raise(self, "Duplicate RULEGRAPH event")
    ELSE LET graphed == [self EXCEPT !.rulegraph = record.rulegraph]
         IN Return(process_snakemake_record(graphed, record, TRUE))

\* RunStatus.process_record: single dispatch on the record's class.
process_record(self, record) ==
    CASE record.cls = "JobInfoRecord" -> process_job_info(self, record)
      [] record.cls = "JobFinishedRecord" -> process_job_finished(self, record)
      [] record.cls = "WorkflowStartedRecord" ->
            process_workflow_started(self, record)
      [] record.cls = "RulegraphRecord" -> process_rulegraph(self, record)
      [] record.type = "snakemake" /\ record.cls \notin
            {"JobInfoRecord", "JobFinishedRecord", "WorkflowStartedRecord",
             "RulegraphRecord"} ->
            Return(process_snakemake_record(self, record, TRUE))
      [] OTHER -> Return(process_record_base(self, record))

\* ------------------------------------------------------------------------
\* State machine
\* ------------------------------------------------------------------------

\* JsonObjectParser.__init__
ParserInit ==
    /\ current_line = 0
    /\ current_obj = <<>>
    /\ current_started = 0
    /\ pcalls = <<>>

\* No call of logrecord_from_json has been made.
DecoderIdle == decoded = <<>>

\* No parse_logfile generator exists.
ReaderIdle ==
    /\ lines = <<>>
    /\ consumed = 0
    /\ gen = "none"
    /\ yielded = <<>>

\* RunStatus(started=...) and __post_init__: everything empty or None.
RunStatusInit ==
    /\ logs = <<>>
    /\ jobs = <<>>
    /\ job_logs = <<>>
    /\ workflow_id = None
    /\ snakefile = None
    /\ rulegraph = None
    /\ calls = <<>>

\* make_registration_decorator(registry, attrname) on an empty registry.
RegistryInit ==
    /\ registry = [k \in {} |-> ""]
    /\ rcalls = <<>>

\* No record is being dumped.
TripIdle == trip = [stage |-> "idle"]

\* The threads that log through the handler.
Threads == {1, 2}

\* The owner of a lock that no thread holds.
Unowned == 0

\* No JsonLogHandler exists.
HandlerNone ==
    /\ hstate = "none"
    /\ multiline = FALSE
    /\ stream = <<>>
    /\ lock = Unowned
    /\ pc = [t \in Threads |-> "idle"]
    /\ towrite = [t \in Threads |-> <<>>]
    /\ emitted = <<>>

\* load_run has not been called.
LoadIdle == loading = [stage |-> "idle"]

\* A JsonFormatter on a stream handler that has written nothing.
FormatterInit == formatted = [calls |-> <<>>, stream |-> <<>>]

\* A fresh RunStatus, a fresh JsonObjectParser, no decoder call and no
\* generator yet; an empty registry, no record being dumped, no handler,
\* no load.
Init ==
    /\ RunStatusInit /\ ParserInit /\ DecoderIdle /\ ReaderIdle
    /\ RegistryInit /\ TripIdle /\ HandlerNone /\ LoadIdle
    /\ FormatterInit

\* The effect of one call run.process_record(record): the object becomes
\* what the handler left, and the call is recorded with the error it raised.
Called(record, result) ==
    /\ logs' = result.state.logs
    /\ jobs' = result.state.jobs
    /\ job_logs' = result.state.job_logs
    /\ workflow_id' = result.state.workflow_id
    /\ snakefile' = result.state.snakefile
    /\ rulegraph' = result.state.rulegraph
    /\ calls' = Append(calls, [record |-> record, error |-> result.error])
    /\ UNCHANGED <<parser_vars, decoded, reader_vars>>
    /\ UNCHANGED <<write_vars, loading, formatted>>

ProcessRecordBase ==
    /\ Len(calls) < MaxCalls
    /\ \E record \in BaseRecords :
          Called(record, process_record(Self, record))

ProcessSnakemakeRecord ==
    /\ Len(calls) < MaxCalls
    /\ \E record \in SnakemakeRecords :
          Called(record, process_record(Self, record))

ProcessJobInfo ==
    /\ Len(calls) < MaxCalls
    /\ \E record \in JobInfoRecords :
          Called(record, process_record(Self, record))

ProcessJobFinished ==
    /\ Len(calls) < MaxCalls
    /\ \E record \in JobFinishedRecords :
          Called(record, process_record(Self, record))

ProcessWorkflowStarted ==
    /\ Len(calls) < MaxCalls
    /\ \E record \in WorkflowStartedRecords :
          Called(record, process_record(Self, record))

ProcessRulegraph ==
    /\ Len(calls) < MaxCalls
    /\ \E record \in RulegraphRecords :
          Called(record, process_record(Self, record))

Next ==
    \/ ProcessRecordBase
    \/ ProcessSnakemakeRecord
    \/ ProcessJobInfo
    \/ ProcessJobFinished
    \/ ProcessWorkflowStarted
    \/ ProcessRulegraph

Spec == Init /\ [][Next]_vars

\* ------------------------------------------------------------------------
\* History of calls
\* ------------------------------------------------------------------------

\* The call returned without raising.
Ok(call) == call.error = "none"

\* The records of a sequence of calls, in call order.
Records(cs) == [i \in 1..Len(cs) |-> cs[i].record]

\* The calls made before call number i.
Before(i) == SubSeq(calls, 1, i - 1)

IsJobInfo(record, j) == record.cls = "JobInfoRecord" /\ record.jobid = j

IsJobFinished(record, j) == record.cls = "JobFinishedRecord" /\ record.job_id = j

\* Some call before call i returned after reducing a JobInfo record of job j.
JobInfoBefore(i, j) ==
    \E p \in 1..(i - 1) : Ok(calls[p]) /\ IsJobInfo(calls[p].record, j)

\* Some call before call i returned after reducing a JobFinished record of j.
JobFinishedBefore(i, j) ==
    \E p \in 1..(i - 1) : Ok(calls[p]) /\ IsJobFinished(calls[p].record, j)

\* How often id j occurs in a list of job ids.
RECURSIVE Mentions(_, _)
Mentions(ids, j) ==
    IF ids = <<>> THEN 0
    ELSE (IF Head(ids) = j THEN 1 ELSE 0) + Mentions(Tail(ids), j)

\* n copies of record r.
Copies(r, n) == [i \in 1..n |-> r]

\* The records of rs that name job j among their associated job ids, in
\* order, each once per mention of j.
RECURSIVE Refs(_, _)
Refs(rs, j) ==
    IF rs = <<>> THEN <<>>
    ELSE Copies(Head(rs), Mentions(associated_jobs(Head(rs)), j))
            \o Refs(Tail(rs), j)

\* Position in logs of the JobInfo record of job j.
JobInfoAt(j) == CHOOSE k \in 1..Len(logs) : IsJobInfo(logs[k], j)

\* The records that referenced job j and were logged before its JobInfo
\* record, in arrival order.
EarlyRefs(j) == Refs(SubSeq(logs, 1, JobInfoAt(j) - 1), j)

\* ------------------------------------------------------------------------
\* Claims
\* ------------------------------------------------------------------------

\* C1: after any sequence of process_record calls, logs is exactly the
\* sequence of the records supplied to the calls that returned, in arrival
\* order and unmodified: no such record is reordered, dropped or changed.
\* (The record of a call that raised is the subject of C3.)
C1_LogsAreTheSuppliedRecords ==
    logs = Records(SelectSeq(calls, Ok))

\* C1 witness: three calls, one of which raised, left two different records
\* in logs.
C1_Witness ==
    /\ Len(calls) = 3
    /\ \E i \in 1..3 : ~Ok(calls[i])
    /\ Len(logs) = 2
    /\ logs[1] # logs[2]

\* C2 as stated: in every job's log list the records that referenced the
\* job before its JobInfo arrived come first, in arrival order, and the
\* JobInfo record follows them.
C2_EarlyRecordsPrecedeJobInfo ==
    \A j \in DOMAIN jobs :
        LET early == EarlyRefs(j)
        IN /\ Len(jobs[j].logs) > Len(early)
           /\ SubSeq(jobs[j].logs, 1, Len(early)) = early
           /\ jobs[j].logs[Len(early) + 1] = logs[JobInfoAt(j)]

\* C2 amended: in every job's log list the JobInfo record that created the
\* job is first, and the records that referenced the job before its JobInfo
\* arrived follow it in their arrival order.
C2_JobInfoThenEarlyRecords ==
    \A j \in DOMAIN jobs :
        LET early == EarlyRefs(j)
        IN /\ Len(jobs[j].logs) > Len(early)
           /\ jobs[j].logs[1] = logs[JobInfoAt(j)]
           /\ SubSeq(jobs[j].logs, 2, Len(early) + 1) = early

\* C2 witness: a job whose JobInfo arrived after two different records that
\* referenced it.
C2_Witness ==
    \E j \in DOMAIN jobs :
        /\ Len(EarlyRefs(j)) = 2
        /\ EarlyRefs(j)[1] # EarlyRefs(j)[2]

\* C3: when the k-th call is the first to raise, logs is exactly the k-1
\* records processed before it, in order, and the jobs resolved by those
\* records are all present with the start time their JobInfo record gave.
C3_FailureKeepsPartialResults ==
    LET k == Len(calls)
    IN (k > 0 /\ ~Ok(calls[k]) /\ \A i \in 1..(k - 1) : Ok(calls[i])) =>
        /\ logs = Records(Before(k))
        /\ DOMAIN jobs =
            {c.record.jobid :
                c \in {calls[i] : i \in {p \in 1..(k - 1) :
                            calls[p].record.cls = "JobInfoRecord"}}}
        /\ \A i \in 1..(k - 1) :
            calls[i].record.cls = "JobInfoRecord" =>
                jobs[calls[i].record.jobid].started
                    = created_dt(calls[i].record)

\* C3 witness: the third call raised after two calls that returned and
\* resolved a job.
C3_Witness ==
    /\ Len(calls) = 3
    /\ Ok(calls[1]) /\ Ok(calls[2]) /\ ~Ok(calls[3])
    /\ DOMAIN jobs # {}
    /\ Len(logs) = 2

\* Index of the first call that returned after reducing a JobInfo (a
\* JobFinished) record of job j.
FirstJobInfoCall(j) ==
    CHOOSE i \in 1..Len(calls) :
        /\ Ok(calls[i]) /\ IsJobInfo(calls[i].record, j)
        /\ ~JobInfoBefore(i, j)

FirstJobFinishedCall(j) ==
    CHOOSE i \in 1..Len(calls) :
        /\ Ok(calls[i]) /\ IsJobFinished(calls[i].record, j)
        /\ ~JobFinishedBefore(i, j)

\* How often record r occurs in the sequence rs.
Occurrences(rs, r) == Cardinality({i \in 1..Len(rs) : rs[i] = r})

\* C4: a JobInfo record whose jobid already has a job entity fails with the
\* duplicate JOB_INFO error and every other JobInfo record is accepted; so
\* each job entity is created exactly once, by the first JobInfo record for
\* its id, and keeps that record's id, start time and record ever after.
C4_JobCreatedOnceByFirstJobInfo ==
    /\ \A i \in 1..Len(calls) :
        calls[i].record.cls = "JobInfoRecord" =>
            calls[i].error =
                IF JobInfoBefore(i, calls[i].record.jobid)
                THEN "Duplicate JOB_INFO event"
                ELSE "none"
    /\ \A j \in JobIds : j \in DOMAIN jobs <=> JobInfoBefore(Len(calls) + 1, j)
    /\ \A j \in DOMAIN jobs :
        LET first == calls[FirstJobInfoCall(j)].record
        IN /\ jobs[j].id = j
           /\ jobs[j].started = created_dt(first)
           /\ Occurrences(jobs[j].logs, first) = 1
           /\ \A r \in JobInfoRecords :
                r # first => Occurrences(jobs[j].logs, r) = 0

\* C4 witness: a second JobInfo record for a known job, with another
\* timestamp, was rejected and the job still has the first one's start.
C4_Witness ==
    \E i \in 1..Len(calls) : \E j \in DOMAIN jobs :
        /\ IsJobInfo(calls[i].record, j)
        /\ calls[i].error = "Duplicate JOB_INFO event"
        /\ created_dt(calls[i].record) # jobs[j].started

\* C5: a JobFinished record for a job whose JobInfo has not been reduced
\* fails with the missing-job error, also when records referencing the job
\* are held in the pending buffer; a job's finished is only ever set when a
\* JobFinished record was reduced after the job's JobInfo record.
C5_JobFinishedNeedsJobInfo ==
    /\ \A i \in 1..Len(calls) :
        LET record == calls[i].record
        IN (record.cls = "JobFinishedRecord"
                /\ ~JobInfoBefore(i, record.job_id)) =>
            calls[i].error = "JOB_FINISHED event before JOB_INFO"
    /\ \A j \in DOMAIN jobs :
        jobs[j].finished # None =>
            \E a \in 1..Len(logs) : \E b \in (a + 1)..Len(logs) :
                IsJobInfo(logs[a], j) /\ IsJobFinished(logs[b], j)
    /\ \A j \in DOMAIN job_logs : \A i \in 1..Len(job_logs[j]) :
        job_logs[j][i].cls # "JobFinishedRecord"

\* C5 witness: the last call was a JobFinished record for a job that is
\* unknown but has records waiting in the pending buffer, and it raised the
\* missing-job error.
C5_Witness ==
    /\ Len(calls) > 0
    /\ calls[Len(calls)].record.cls = "JobFinishedRecord"
    /\ calls[Len(calls)].error = "JOB_FINISHED event before JOB_INFO"
    /\ calls[Len(calls)].record.job_id \in DOMAIN job_logs

\* C6: the first JobFinished record for a known job is accepted and sets
\* finished to its timestamp, every later JobFinished record for the job
\* fails with the duplicate JOB_FINISHED error, and finished keeps the first
\* record's timestamp; a job with no accepted JobFinished has finished None.
C6_FinishedSetExactlyOnce ==
    /\ \A i \in 1..Len(calls) :
        LET record == calls[i].record
        IN (record.cls = "JobFinishedRecord"
                /\ JobInfoBefore(i, record.job_id)) =>
            calls[i].error =
                IF JobFinishedBefore(i, record.job_id)
                THEN "Duplicate JOB_FINISHED event"
                ELSE "none"
    /\ \A j \in DOMAIN jobs :
        jobs[j].finished =
            IF JobFinishedBefore(Len(calls) + 1, j)
            THEN created_dt(calls[FirstJobFinishedCall(j)].record)
            ELSE None

\* C6 witness: a job was finished, and a later JobFinished record for it
\* with another timestamp was rejected as a duplicate.
C6_Witness ==
    \E i \in 1..Len(calls) : \E j \in DOMAIN jobs :
        /\ IsJobFinished(calls[i].record, j)
        /\ calls[i].error = "Duplicate JOB_FINISHED event"
        /\ jobs[j].finished # None
        /\ jobs[j].finished # created_dt(calls[i].record)

\* The calls that supplied a WorkflowStarted record.
WorkflowStartedCalls ==
    {i \in 1..Len(calls) : calls[i].record.cls = "WorkflowStartedRecord"}

\* C7: the first WorkflowStarted record is accepted, the second and every
\* later one fails with the duplicate WORKFLOW_STARTED error; workflow_id is
\* None until then and the first record's id after, and snakefile is the
\* first record's path when it carries one and stays None otherwise.
C7_WorkflowStartedOnce ==
    /\ \A i \in WorkflowStartedCalls :
        calls[i].error =
            IF \E p \in WorkflowStartedCalls : p < i
            THEN "Duplicate WORKFLOW_STARTED event"
            ELSE "none"
    /\ IF WorkflowStartedCalls = {}
       THEN workflow_id = None /\ snakefile = None
       ELSE LET first ==
                    calls[CHOOSE i \in WorkflowStartedCalls :
                            \A p \in WorkflowStartedCalls : i <= p].record
            IN /\ workflow_id = first.workflow_id
               /\ snakefile =
                    IF first.snakefile = None THEN None
                    ELSE <<"Path", first.snakefile[2]>>

\* C7 witness: a first WorkflowStarted record without snakefile was
\* accepted, and a second one carrying another id and a snakefile was
\* rejected.
C7_Witness ==
    \E i \in WorkflowStartedCalls :
        /\ calls[i].error = "Duplicate WORKFLOW_STARTED event"
        /\ calls[i].record.snakefile # None
        /\ calls[i].record.workflow_id # workflow_id
        /\ snakefile = None

\* The calls that supplied a Rulegraph record.
RulegraphCalls ==
    {i \in 1..Len(calls) : calls[i].record.cls = "RulegraphRecord"}

\* C8 as stated: once a Rulegraph record has been processed, every later
\* Rulegraph record fails with the duplicate RULEGRAPH error, whatever the
\* payload of the first one (a null rulegraph included).
C8_AtMostOneRulegraph ==
    \A i \in RulegraphCalls :
        (\E p \in RulegraphCalls : p < i /\ Ok(calls[p])) =>
            calls[i].error = "Duplicate RULEGRAPH event"

\* The record and outcome of the call a step makes.
ThisCall == calls'[Len(calls')]

\* The pending list of job j before and after a step (empty when absent).
Pending(j) == IF j \in DOMAIN job_logs THEN job_logs[j] ELSE <<>>
PendingAfter(j) == IF j \in DOMAIN job_logs' THEN job_logs'[j] ELSE <<>>

\* A step routes record to id j: once per mention of j it is appended to the
\* end of job j's log list when the job is known before the step, and to the
\* end of j's pending list when it is not; nothing else of j changes.
RoutedTo(record, j) ==
    LET n == Mentions(associated_jobs(record), j)
    IN IF j \in DOMAIN jobs
       THEN /\ j \in DOMAIN jobs'
            /\ jobs'[j].logs = jobs[j].logs \o Copies(record, n)
            /\ PendingAfter(j) = Pending(j)
       ELSE /\ j \notin DOMAIN jobs'
            /\ PendingAfter(j) = Pending(j) \o Copies(record, n)

\* A step that creates job j leaves record at the end of j's log list.
AppendedToNewJob(record, j) ==
    /\ j \notin DOMAIN jobs
    /\ j \in DOMAIN jobs'
    /\ Mentions(associated_jobs(record), j) > 0
    /\ jobs'[j].logs[Len(jobs'[j].logs)] = record

\* C9 as stated: a call that reduces any Snakemake-category record appends
\* it to logs and routes it to each of its associated job ids: to the end of
\* the job's log list when the job exists (before the call, or by the end of
\* it), otherwise to the end of the pending list of that id.
C9_EverySnakemakeRecordRouted ==
    [][(calls' # calls /\ Ok(ThisCall) /\ ThisCall.record.type = "snakemake")
        => /\ logs' = Append(logs, ThisCall.record)
           /\ \A j \in JobIds :
                \/ RoutedTo(ThisCall.record, j)
                \/ AppendedToNewJob(ThisCall.record, j)]_vars

\* C9 amended: a call that reduces a Snakemake-category record appends it to
\* logs; unless it is a JobInfo record it is routed to each of its
\* associated job ids independently (job log list when the job is known,
\* pending list otherwise, at the end, once per mention); a JobInfo record
\* is routed nowhere: it is put in no pending list and in no other job's
\* log list.
C9_SnakemakeRecordRoutedPerId ==
    [][(calls' # calls /\ Ok(ThisCall) /\ ThisCall.record.type = "snakemake")
        => /\ logs' = Append(logs, ThisCall.record)
           /\ IF ThisCall.record.cls = "JobInfoRecord"
              THEN /\ ThisCall.record.jobid \notin DOMAIN job_logs'
                   /\ \A j \in JobIds \ {ThisCall.record.jobid} :
                        /\ PendingAfter(j) = Pending(j)
                        /\ j \in DOMAIN jobs' <=> j \in DOMAIN jobs
                        /\ j \in DOMAIN jobs => jobs'[j] = jobs[j]
              ELSE \A j \in JobIds : RoutedTo(ThisCall.record, j)]_vars

\* C9 witness: the last call reduced a record naming a known and an unknown
\* job; it is the last entry of the known job's log list and of the unknown
\* job's pending list.
C9_Witness ==
    /\ Len(calls) > 0 /\ Ok(calls[Len(calls)])
    /\ LET record == calls[Len(calls)].record
       IN /\ record.cls = "JobStartedRecord"
          /\ \E a \in DOMAIN jobs : \E b \in DOMAIN job_logs :
                /\ record.jobs \in {<<a, b>>, <<b, a>>}
                /\ jobs[a].logs[Len(jobs[a].logs)] = record
                /\ job_logs[b][Len(job_logs[b])] = record

\* C10: no job id is both a key of jobs and a key of the pending buffer;
\* the pending list of an unknown id holds every record that referenced it,
\* and the records that referenced a job before its JobInfo arrived are all
\* in the job's log list.
C10_KnownJobsHaveNoPendingEntry ==
    /\ DOMAIN jobs \cap DOMAIN job_logs = {}
    /\ \A j \in DOMAIN job_logs :
        job_logs[j] # <<>> /\ job_logs[j] = Refs(logs, j)
    /\ \A j \in DOMAIN jobs :
        LET early == EarlyRefs(j)
        IN \A i \in 1..Len(early) :
            Occurrences(jobs[j].logs, early[i]) >= Occurrences(early, early[i])

\* C10 witness: a job whose pending records were moved into its log list
\* on arrival of its JobInfo, while another id still has a pending list.
C10_Witness ==
    /\ DOMAIN job_logs # {}
    /\ \E j \in DOMAIN jobs :
        /\ Len(EarlyRefs(j)) >= 1
        /\ Len(jobs[j].logs) = 1 + Len(EarlyRefs(j))

\* C11: a call with a record that is not Snakemake-category (standard or
\* meta) returns without error, appends the record to logs and leaves jobs
\* (every job's log list and timestamps), the pending buffer, workflow_id,
\* snakefile and rulegraph unchanged.
C11_BaseRecordOnlyLogged ==
    [][(calls' # calls /\ ThisCall.record.type # "snakemake")
        => /\ Ok(ThisCall)
           /\ logs' = Append(logs, ThisCall.record)
           /\ jobs' = jobs
           /\ job_logs' = job_logs
           /\ workflow_id' = workflow_id
           /\ snakefile' = snakefile
           /\ rulegraph' = rulegraph]_vars

\* C11 witness: the last call logged a standard or meta record on an object
\* that holds a job and a pending list.
C11_Witness ==
    /\ Len(calls) > 0
    /\ calls[Len(calls)].record.type \in {"standard", "meta"}
    /\ logs[Len(logs)] = calls[Len(calls)].record
    /\ DOMAIN jobs # {}
    /\ DOMAIN job_logs # {}

\* ------------------------------------------------------------------------
\* Text of a log file (json.py)
\* ------------------------------------------------------------------------

\* A line is a sequence of tokens.  The tokens are the braces, two
\* whitespace characters, and the text of one member ("key": value) of a
\* JSON object, written <<key, value>>; a member whose value is a nested
\* object that opens on this line has the value "{".
LB == <<"{">>
RB == <<"}">>
SP == <<" ">>
NL == <<"\n">>
Whitespace == {SP, NL}

TypeStandard == <<"type", "standard">>
Message == <<"message", "text">>
Levelno == <<"levelno", "20">>
ExcInfoOpen == <<"exc_info", "{">>

\* str.rstrip(): the line without its trailing whitespace.
RECURSIVE rstrip(_)
rstrip(line) ==
    IF line # <<>> /\ line[Len(line)] \in Whitespace
    THEN rstrip(SubSeq(line, 1, Len(line) - 1))
    ELSE line

\* str.isspace(): at least one character, and all of them whitespace.
isspace(line) ==
    line # <<>> /\ \A i \in 1..Len(line) : line[i] \in Whitespace

\* str.startswith(token)
startswith(line, token) == line # <<>> /\ line[1] = token

\* ''.join(list of lines)
RECURSIVE join(_)
join(list) == IF list = <<>> THEN <<>> ELSE Head(list) \o join(Tail(list))

NotWhitespace(token) == token \notin Whitespace

\* The tokens of a text that are not whitespace between JSON tokens.
Significant(text) == SelectSeq(text, NotWhitespace)

\* json.loads accepts the significant tokens from position i on, read at
\* nesting depth depth: an object opens with "{", holds members and nested
\* objects (opened by a member), and its closing "}" ends the text.
RECURSIVE IsObjectFrom(_, _, _)
IsObjectFrom(tokens, i, depth) ==
    IF i > Len(tokens) THEN FALSE
    ELSE IF i = 1 THEN tokens[1] = LB /\ IsObjectFrom(tokens, 2, 1)
    ELSE IF tokens[i] = LB THEN FALSE
    ELSE IF tokens[i] = RB
    THEN IF depth = 1 THEN i = Len(tokens)
         ELSE IsObjectFrom(tokens, i + 1, depth - 1)
    ELSE IF tokens[i][2] = "{" THEN IsObjectFrom(tokens, i + 1, depth + 1)
    ELSE IsObjectFrom(tokens, i + 1, depth)

\* A dict with no key.
EmptyDict == [k \in {} |-> ""]

\* The position of the "}" that closes the object open at position i, where
\* depth objects are open.
RECURSIVE ClosingBrace(_, _, _)
ClosingBrace(tokens, i, depth) ==
    IF i > Len(tokens) THEN i
    ELSE IF tokens[i] = RB
    THEN IF depth = 1 THEN i ELSE ClosingBrace(tokens, i + 1, depth - 1)
    ELSE IF tokens[i] # LB /\ tokens[i][2] = "{"
    THEN ClosingBrace(tokens, i + 1, depth + 1)
    ELSE ClosingBrace(tokens, i + 1, depth)

\* The dict that the significant tokens from position i to the "}" closing
\* the object they are in stand for, the last of two members with one key
\* winning.  The dict is held flat: a member whose value is a nested object
\* is held as "{", and the nested object's members under the member's key,
\* a dot and their own key (prefix is the key and dot of the object being
\* read, "" for the outer one).
RECURSIVE ObjectOf(_, _, _)
ObjectOf(tokens, i, prefix) ==
    IF i > Len(tokens) THEN EmptyDict
    ELSE IF tokens[i] = RB THEN EmptyDict
    ELSE IF tokens[i] = LB THEN ObjectOf(tokens, i + 1, prefix)
    ELSE LET key == prefix \o tokens[i][1]
             nested == tokens[i][2] = "{"
             end == IF nested THEN ClosingBrace(tokens, i + 1, 1) ELSE i
             rest == ObjectOf(tokens, end + 1, prefix)
         IN IF key \in DOMAIN rest THEN rest
            ELSE IF nested
            THEN rest @@ ObjectOf(tokens, i + 1, key \o ".") @@ (key :> "{")
            ELSE rest @@ (key :> tokens[i][2])

\* json.loads(text): the decoded dict, or JSONDecodeError.
json_loads(text) ==
    IF IsObjectFrom(Significant(text), 1, 0)
    THEN [ok |-> TRUE, value |-> ObjectOf(Significant(text), 1, "")]
    ELSE [ok |-> FALSE, value |-> None]

\* ------------------------------------------------------------------------
\* Object boundary parser (json.py, JsonObjectParser)
\* ------------------------------------------------------------------------

\* The JsonObjectParser object held in the variables.
Parser ==
    [current_line |-> current_line, current_obj |-> current_obj,
     current_started |-> current_started]

\* What a call of the parser gives its caller: nothing, a completed object
\* with its first and last line, or a JsonParseError.
NoResult == [kind |-> "none"]
ObjResult(start, end, value) ==
    [kind |-> "object", start |-> start, end |-> end, value |-> value]
ParseError(msg, start_line, end_line) ==
    [kind |-> "error", msg |-> msg, start_line |-> start_line,
     end_line |-> end_line]

\* process_line as it would be if a completed multi-line object were not
\* cleared from the parser.
process_line_keeps_open(self, raw) ==
    LET counted == [self EXCEPT !.current_line = @ + 1]
        line == rstrip(raw)
    IN IF isspace(line)
       THEN [state |-> counted, result |-> NoResult]
       ELSE IF counted.current_obj # <<>>
       THEN LET appended ==
                    [counted EXCEPT !.current_obj = Append(@, line)]
            IN IF line = <<RB>>
               THEN LET loaded == json_loads(join(appended.current_obj))
                    IN IF ~loaded.ok
                       THEN [state |-> appended,
                             result |-> ParseError("JSONDecodeError",
                                appended.current_started,
                                appended.current_line)]
                       ELSE [state |-> appended,
                             result |-> ObjResult(appended.current_started,
                                appended.current_line, loaded.value)]
               ELSE [state |-> appended, result |-> NoResult]
       ELSE IF line = <<LB>>
       THEN [state |-> [counted EXCEPT
                !.current_obj = <<line>>,
                !.current_started = counted.current_line],
             result |-> NoResult]
       ELSE IF startswith(line, LB) /\ json_loads(line).ok
       THEN [state |-> counted,
             result |-> ObjResult(counted.current_line,
                counted.current_line, json_loads(line).value)]
       ELSE [state |-> counted,
             result |-> ParseError(
                "Expected single opening brace or complete JSON object",
                counted.current_line, counted.current_line)]

\* process_line as it would be if a line starting with "{" that does not
\* decode were taken as the opening of a multi-line object.
process_line_opens_on_prefix(self, raw) ==
    LET counted == [self EXCEPT !.current_line = @ + 1]
        line == rstrip(raw)
    IN IF isspace(line)
       THEN [state |-> counted, result |-> NoResult]
       ELSE IF counted.current_obj # <<>>
       THEN LET appended ==
                    [counted EXCEPT !.current_obj = Append(@, line)]
            IN IF line = <<RB>>
               THEN LET loaded == json_loads(join(appended.current_obj))
                    IN IF ~loaded.ok
                       THEN [state |-> appended,
                             result |-> ParseError("JSONDecodeError",
                                appended.current_started,
                                appended.current_line)]
                       ELSE [state |-> [appended EXCEPT
                                !.current_obj = <<>>,
                                !.current_started = 0],
                             result |-> ObjResult(appended.current_started,
                                appended.current_line, loaded.value)]
               ELSE [state |-> appended, result |-> NoResult]
       ELSE IF startswith(line, LB) /\ json_loads(line).ok
       THEN [state |-> counted,
             result |-> ObjResult(counted.current_line,
                counted.current_line, json_loads(line).value)]
       ELSE IF startswith(line, LB)
       THEN [state |-> [counted EXCEPT
                !.current_obj = <<line>>,
                !.current_started = counted.current_line],
             result |-> NoResult]
       ELSE [state |-> counted,
             result |-> ParseError(
                "Expected single opening brace or complete JSON object",
                counted.current_line, counted.current_line)]

\* process_line as it would be if the two boundary shapes were looked for
\* before the test for an open object.
process_line_boundary_first(self, raw) ==
    LET counted == [self EXCEPT !.current_line = @ + 1]
        line == rstrip(raw)
    IN IF isspace(line)
       THEN [state |-> counted, result |-> NoResult]
       ELSE IF line = <<LB>>
       THEN [state |-> [counted EXCEPT
                !.current_obj = <<line>>,
                !.current_started = counted.current_line],
             result |-> NoResult]
       ELSE IF startswith(line, LB) /\ json_loads(line).ok
       THEN [state |-> counted,
             result |-> ObjResult(counted.current_line,
                counted.current_line, json_loads(line).value)]
       ELSE IF counted.current_obj # <<>>
       THEN LET appended ==
                    [counted EXCEPT !.current_obj = Append(@, line)]
            IN IF line = <<RB>>
               THEN LET loaded == json_loads(join(appended.current_obj))
                    IN IF ~loaded.ok
                       THEN [state |-> appended,
                             result |-> ParseError("JSONDecodeError",
                                appended.current_started,
                                appended.current_line)]
                       ELSE [state |-> [appended EXCEPT
                                !.current_obj = <<>>,
                                !.current_started = 0],
                             result |-> ObjResult(appended.current_started,
                                appended.current_line, loaded.value)]
               ELSE [state |-> appended, result |-> NoResult]
       ELSE [state |-> counted,
             result |-> ParseError(
                "Expected single opening brace or complete JSON object",
                counted.current_line, counted.current_line)]

\* JsonObjectParser.process_line: the parser after the call and its result.
process_line(self, raw) ==
    LET counted == [self EXCEPT !.current_line = @ + 1]
        line == rstrip(raw)
    IN IF isspace(line)
       THEN [state |-> counted, result |-> NoResult]
       ELSE IF counted.current_obj # <<>>
       THEN LET appended ==
                    [counted EXCEPT !.current_obj = Append(@, line)]
            IN IF line = <<RB>>
               THEN LET loaded == json_loads(join(appended.current_obj))
                    IN IF ~loaded.ok
                       THEN [state |-> appended,
                             result |-> ParseError("JSONDecodeError",
                                appended.current_started,
                                appended.current_line)]
                       ELSE [state |-> [appended EXCEPT
                                !.current_obj = <<>>,
                                !.current_started = 0],
                             result |-> ObjResult(appended.current_started,
                                appended.current_line, loaded.value)]
               ELSE [state |-> appended, result |-> NoResult]
       ELSE IF line = <<LB>>
       THEN [state |-> [counted EXCEPT
                !.current_obj = <<line>>,
                !.current_started = counted.current_line],
             result |-> NoResult]
       ELSE IF startswith(line, LB) /\ json_loads(line).ok
       THEN [state |-> counted,
             result |-> ObjResult(counted.current_line,
                counted.current_line, json_loads(line).value)]
       ELSE [state |-> counted,
             result |-> ParseError(
                "Expected single opening brace or complete JSON object",
                counted.current_line, counted.current_line)]

\* complete as it would be if it checked nothing.
complete_unchecked(self) == NoResult

\* JsonObjectParser.complete: the result of the end-of-input check.
complete(self) ==
    IF self.current_obj # <<>>
    THEN ParseError("JSON object not closed",
            self.current_started, self.current_line)
    ELSE NoResult

\* Number of lines fed to one parser.
MaxLines == 4

\* The lines fed to the parser, each as read from a file with its newline:
\* an empty and a whitespace-only line, the two boundary lines, a closing
\* brace followed by whitespace, the indented lines of a multi-line object
\* (a member, the opening and the closing of a nested object), a complete
\* single-line object, a line that starts like one but is cut short, and a
\* line that does not start with a brace.
LineTexts ==
    {<<>>, <<SP>>, <<LB>>, <<RB>>, <<RB, SP>>,
     <<SP, TypeStandard>>, <<SP, ExcInfoOpen>>, <<SP, RB>>,
     <<LB, TypeStandard, RB>>, <<LB, TypeStandard>>, <<TypeStandard>>}

Lines == {text \o <<NL>> : text \in LineTexts}

\* One call parser.process_line(line), recorded with the line's number, the
\* result, and whether an object was open before and after the call.
ProcessLine ==
    /\ Len(pcalls) < MaxLines
    /\ \E line \in Lines :
        LET call == process_line(Parser, line)
        IN /\ current_line' = call.state.current_line
           /\ current_obj' = call.state.current_obj
           /\ current_started' = call.state.current_started
           /\ pcalls' = Append(pcalls,
                [op |-> "process_line", line |-> line,
                 lineno |-> call.state.current_line,
                 was_open |-> current_obj # <<>>,
                 is_open |-> call.state.current_obj # <<>>,
                 result |-> call.result])
    /\ UNCHANGED <<run_vars, decoded, reader_vars>>
    /\ UNCHANGED <<write_vars, loading, formatted>>

\* One call parser.complete(); a second call in a row would repeat it.
Complete ==
    /\ IF pcalls = <<>> THEN TRUE ELSE pcalls[Len(pcalls)].op # "complete"
    /\ pcalls' = Append(pcalls,
            [op |-> "complete", line |-> <<>>, lineno |-> current_line,
             was_open |-> current_obj # <<>>,
             is_open |-> current_obj # <<>>,
             result |-> complete(Parser)])
    /\ UNCHANGED <<current_line, current_obj, current_started>>
    /\ UNCHANGED <<run_vars, decoded, reader_vars>>
    /\ UNCHANGED <<write_vars, loading, formatted>>

ParserNext == ProcessLine \/ Complete

SpecParser == Init /\ [][ParserNext]_vars

\* ------------------------------------------------------------------------
\* History of one parser
\* ------------------------------------------------------------------------

IsProcessLineCall(call) == call.op = "process_line"

\* The process_line calls made so far, and the lines they were given.
FedCalls == SelectSeq(pcalls, IsProcessLineCall)
Fed == [i \in 1..Len(FedCalls) |-> FedCalls[i].line]

IsObjectResult(call) == call.result.kind = "object"

\* The objects the parser has returned so far, in order.
Framed ==
    LET returned == SelectSeq(FedCalls, IsObjectResult)
    IN [i \in 1..Len(returned) |-> returned[i].result]

\* A blank or whitespace-only line.
Blank(line) == \A i \in 1..Len(line) : line[i] \in Whitespace

\* A line that is a complete JSON object by itself.
SingleLineObject(line) == startswith(line, LB) /\ json_loads(line).ok

\* C12 as stated: a blank or whitespace-only line given to process_line
\* while no multi-line object is open returns nothing, raises no error and
\* leaves the parser with no object open.
C12_BlankLineIgnored ==
    \A i \in 1..Len(pcalls) :
        (/\ pcalls[i].op = "process_line"
         /\ Blank(pcalls[i].line)
         /\ ~pcalls[i].was_open)
        => /\ pcalls[i].result = NoResult
           /\ ~pcalls[i].is_open

\* The first line from i on that is exactly "}" once its trailing
\* whitespace is stripped; 0 when there is none.
RECURSIVE ClosingLine(_, _)
ClosingLine(ls, i) ==
    IF i > Len(ls) THEN 0
    ELSE IF rstrip(ls[i]) = <<RB>> THEN i
    ELSE ClosingLine(ls, i + 1)

\* The lines from i on are a stream of well-formed objects: each is either
\* a single-line object, or a multi-line object that opens with "{" alone,
\* closes with the next unindented "}" alone, and decodes as a whole.
RECURSIVE WellFormedStream(_, _)
WellFormedStream(ls, i) ==
    IF i > Len(ls) THEN TRUE
    ELSE IF SingleLineObject(ls[i]) THEN WellFormedStream(ls, i + 1)
    ELSE LET b == ClosingLine(ls, i + 1)
         IN /\ rstrip(ls[i]) = <<LB>>
            /\ b # 0
            /\ json_loads(join(SubSeq(ls, i, b))).ok
            /\ WellFormedStream(ls, b + 1)

\* The objects of a well-formed stream with their first and last lines.
RECURSIVE Framing(_, _)
Framing(ls, i) ==
    IF i > Len(ls) THEN <<>>
    ELSE IF SingleLineObject(ls[i])
    THEN <<ObjResult(i, i, json_loads(ls[i]).value)>> \o Framing(ls, i + 1)
    ELSE LET b == ClosingLine(ls, i + 1)
         IN <<ObjResult(i, b, json_loads(join(SubSeq(ls, i, b))).value)>>
            \o Framing(ls, b + 1)

\* C13: when the lines fed so far are a stream of well-formed objects in
\* either encoding, the parser has returned exactly those objects, in
\* order, each with the 1-based numbers of its first and last line and each
\* from the call on its last line, and has raised nothing.
C13_FramesEveryObject ==
    WellFormedStream(Fed, 1) =>
        /\ Framed = Framing(Fed, 1)
        /\ \A i \in 1..Len(FedCalls) :
            /\ FedCalls[i].lineno = i
            /\ FedCalls[i].result.kind # "error"
            /\ FedCalls[i].result.kind = "object" => FedCalls[i].result.end = i

\* A multi-line object spanning three lines followed by a single-line one.
C13_Witness ==
    /\ WellFormedStream(Fed, 1)
    /\ Len(Framed) = 2
    /\ Framed[1].start = 1 /\ Framed[1].end = 3
    /\ Framed[2].start = 4 /\ Framed[2].end = 4

\* A line that is neither blank, nor the opening brace alone, nor a complete
\* single-line object.
OtherShape(line) ==
    /\ ~Blank(line)
    /\ rstrip(line) # <<LB>>
    /\ ~SingleLineObject(rstrip(line))

\* C15: while no object is open, a line of any other shape raises a parse
\* error whose start and end line are the line's own number, and opens no
\* object.
C15_OtherShapeIsError ==
    \A i \in 1..Len(pcalls) :
        (/\ pcalls[i].op = "process_line"
         /\ ~pcalls[i].was_open
         /\ OtherShape(pcalls[i].line))
        => /\ pcalls[i].result.kind = "error"
           /\ pcalls[i].result.start_line = pcalls[i].lineno
           /\ pcalls[i].result.end_line = pcalls[i].lineno
           /\ ~pcalls[i].is_open

\* The three shapes the claim names, each refused on a line after the
\* first: a lone "}", text not starting with "{", and a line that starts
\* with "{" but does not decode.
C15_Witness ==
    /\ Len(pcalls) = 4
    /\ pcalls[2].line = <<RB>> \o <<NL>>
    /\ pcalls[3].line = <<TypeStandard>> \o <<NL>>
    /\ pcalls[4].line = <<LB, TypeStandard>> \o <<NL>>
    /\ \A i \in 2..4 :
        pcalls[i].result.kind = "error" /\ pcalls[i].result.start_line = i

\* The call a step of the parser makes.
ThisParserCall == pcalls'[Len(pcalls')]

\* C16: a process_line call made while an object is open appends the
\* stripped line to it.  A line other than "}" returns nothing and leaves
\* the object open with the same opening line; a "}" line either returns
\* the decoded span with the opening and the closing line number and closes
\* the object, or raises a parse error carrying those two numbers.
C16_OpenObjectTakesEveryLine ==
    [][(pcalls' # pcalls /\ ThisParserCall.op = "process_line"
            /\ current_obj # <<>>)
        => LET line == rstrip(ThisParserCall.line)
               span == Append(current_obj, line)
               result == ThisParserCall.result
           IN IF line # <<RB>>
              THEN /\ result = NoResult
                   /\ current_obj' = span
                   /\ current_started' = current_started
              ELSE IF json_loads(join(span)).ok
              THEN /\ result = ObjResult(current_started, current_line + 1,
                                    json_loads(join(span)).value)
                   /\ current_obj' = <<>>
              ELSE /\ result.kind = "error"
                   /\ result.start_line = current_started
                   /\ result.end_line = current_line + 1]_vars

\* An open object was given "{" and a complete single-line object, stayed
\* open from line 1, and the "}" that followed raised the decode failure
\* for lines 1 to 4.
C16_Witness ==
    /\ Len(pcalls) = 4
    /\ pcalls[2].line = <<LB>> \o <<NL>> /\ pcalls[2].was_open
    /\ pcalls[3].line = <<LB, TypeStandard, RB>> \o <<NL>>
    /\ pcalls[3].result = NoResult
    /\ pcalls[4].result.kind = "error"
    /\ pcalls[4].result.start_line = 1 /\ pcalls[4].result.end_line = 4
    /\ Len(current_obj) = 4

\* ------------------------------------------------------------------------
\* Record decoder (json.py, logrecord_from_json; models.py)
\* ------------------------------------------------------------------------

\* The keys _serialize adds to a record's fields, popped before validation.
TransportKeys == {"type", "event", "levelname"}

\* The fields of JsonLogRecord.
BaseFields == {"message", "levelno", "created", "exc_info"}

\* The registry of meta record models, by event.
META_RECORD_MODELS ==
    [logging_started |-> "LoggingStartedRecord",
     formatting_error |-> "FormattingErrorRecord"]

\* The registry of Snakemake record models, by event.
SNAKEMAKE_RECORD_MODELS ==
    [error |-> "ErrorRecord",
     workflow_started |-> "WorkflowStartedRecord",
     job_info |-> "JobInfoRecord",
     job_started |-> "JobStartedRecord",
     job_finished |-> "JobFinishedRecord",
     shellcmd |-> "ShellCmdRecord",
     job_error |-> "JobErrorRecord",
     group_info |-> "GroupInfoRecord",
     group_error |-> "GroupErrorRecord",
     resources_info |-> "ResourcesInfoRecord",
     debug_dag |-> "DebugDagRecord",
     progress |-> "ProgressRecord",
     rulegraph |-> "RulegraphRecord",
     run_info |-> "RunInfoRecord"]

\* The fields a model class declares itself.
OwnFields(model) ==
    CASE model = "StandardLogRecord" -> {}
      [] model = "LoggingStartedRecord" -> {"pid", "proc_started"}
      [] model = "FormattingErrorRecord" -> {"record_partial", "exception"}
      [] model = "ErrorRecord" ->
            {"exception", "location", "rule", "trackeback", "file", "line"}
      [] model = "WorkflowStartedRecord" -> {"workflow_id", "snakefile"}
      [] model = "JobInfoRecord" ->
            {"jobid", "rule_name", "threads", "input", "output", "log",
             "benchmark", "rule_msg", "wildcards", "reason", "shellcmd",
             "priority", "resources"}
      [] model = "JobStartedRecord" -> {"jobs"}
      [] model = "JobFinishedRecord" -> {"job_id"}
      [] model = "ShellCmdRecord" -> {"jobid", "shellcmd", "rule_name"}
      [] model = "JobErrorRecord" -> {"jobid"}
      [] model = "GroupInfoRecord" -> {"group_id", "jobs"}
      [] model = "GroupErrorRecord" ->
            {"groupid", "aux_logs", "job_error_info"}
      [] model = "ResourcesInfoRecord" ->
            {"nodes", "cores", "provided_resources"}
      [] model = "DebugDagRecord" -> {"status", "job", "file", "exception"}
      [] model = "ProgressRecord" -> {"done", "total"}
      [] model = "RulegraphRecord" -> {"rulegraph"}
      [] model = "RunInfoRecord" -> {"stats"}

\* The fields of a model class that have no default.  The two meta models
\* give message and levelno a default; every other model inherits them
\* without one.
Required(model) ==
    CASE model = "LoggingStartedRecord" -> {"pid"}
      [] model = "FormattingErrorRecord" -> {"record_partial"}
      [] OTHER ->
            {"message", "levelno"} \cup
            (CASE model = "WorkflowStartedRecord" ->
                    {"workflow_id", "snakefile"}
               [] model = "JobInfoRecord" -> {"jobid", "rule_name", "threads"}
               [] model = "JobStartedRecord" -> {"jobs"}
               [] model = "JobFinishedRecord" -> {"job_id"}
               [] model = "JobErrorRecord" -> {"jobid"}
               [] model = "GroupInfoRecord" -> {"group_id", "jobs"}
               [] model = "GroupErrorRecord" ->
                    {"groupid", "aux_logs", "job_error_info"}
               [] model = "ProgressRecord" -> {"done", "total"}
               [] model = "RunInfoRecord" -> {"stats"}
               [] OTHER -> {})

\* All the fields of a model class.
Fields(model) == BaseFields \cup OwnFields(model)

\* What the decoder gives its caller: a record of a model class, with the
\* fields taken from the object and the names of those left to their
\* defaults, or an error.
DecodedRecord(model, fields, defaulted) ==
    [kind |-> "record", cls |-> model, fields |-> fields,
     defaulted |-> defaulted]
DecodeError(msg) == [kind |-> "error", msg |-> msg]

\* JsonParseError(msg, data=obj) raised by _get_record_model: value is the
\* value the message quotes ("" when it quotes none).
JsonParseError(msg, value, obj) ==
    [kind |-> "error", msg |-> msg, value |-> value, data |-> obj]

\* _get_record_model as it would be if the event were looked up before the
\* test for a standard record.
get_record_model_event_first(obj) ==
    IF "type" \notin DOMAIN obj
    THEN JsonParseError("Record JSON missing \"type\" property", "", obj)
    ELSE IF obj["type"] \notin {"standard", "meta", "snakemake"}
    THEN JsonParseError("Invalid value for \"type\" property",
            obj["type"], obj)
    ELSE IF "event" \notin DOMAIN obj
    THEN IF obj["type"] = "standard"
         THEN [kind |-> "model", model |-> "StandardLogRecord"]
         ELSE JsonParseError("Record JSON missing \"event\" property",
                obj["type"], obj)
    ELSE IF obj["type"] = "snakemake"
    THEN IF obj["event"] \notin DOMAIN SNAKEMAKE_RECORD_MODELS
         THEN JsonParseError(
                "Invalid \"event\" property for snakemake record",
                obj["event"], obj)
         ELSE [kind |-> "model",
               model |-> SNAKEMAKE_RECORD_MODELS[obj["event"]]]
    ELSE IF obj["event"] \notin DOMAIN META_RECORD_MODELS
         THEN JsonParseError("Invalid \"event\" property for meta record",
                obj["event"], obj)
         ELSE IF obj["type"] = "standard"
         THEN [kind |-> "model", model |-> "StandardLogRecord"]
         ELSE [kind |-> "model", model |-> META_RECORD_MODELS[obj["event"]]]

\* _get_record_model as it would be if there were one registry for both
\* categories.
get_record_model_one_registry(obj) ==
    IF "type" \notin DOMAIN obj
    THEN JsonParseError("Record JSON missing \"type\" property", "", obj)
    ELSE IF obj["type"] = "standard"
    THEN [kind |-> "model", model |-> "StandardLogRecord"]
    ELSE IF obj["type"] \notin {"meta", "snakemake"}
    THEN JsonParseError("Invalid value for \"type\" property",
            obj["type"], obj)
    ELSE IF "event" \notin DOMAIN obj
    THEN JsonParseError("Record JSON missing \"event\" property",
            obj["type"], obj)
    ELSE IF obj["event"] \in DOMAIN SNAKEMAKE_RECORD_MODELS
    THEN [kind |-> "model", model |-> SNAKEMAKE_RECORD_MODELS[obj["event"]]]
    ELSE IF obj["event"] \in DOMAIN META_RECORD_MODELS
    THEN [kind |-> "model", model |-> META_RECORD_MODELS[obj["event"]]]
    ELSE JsonParseError("Invalid \"event\" property for meta record",
            obj["event"], obj)

\* _get_record_model: the model class for an object, or a JsonParseError.
get_record_model(obj) ==
    IF "type" \notin DOMAIN obj
    THEN JsonParseError("Record JSON missing \"type\" property", "", obj)
    ELSE IF obj["type"] = "standard"
    THEN [kind |-> "model", model |-> "StandardLogRecord"]
    ELSE IF obj["type"] \notin {"meta", "snakemake"}
    THEN JsonParseError("Invalid value for \"type\" property",
            obj["type"], obj)
    ELSE IF "event" \notin DOMAIN obj
    THEN JsonParseError("Record JSON missing \"event\" property",
            obj["type"], obj)
    ELSE IF obj["type"] = "snakemake"
    THEN IF obj["event"] \notin DOMAIN SNAKEMAKE_RECORD_MODELS
         THEN JsonParseError(
                "Invalid \"event\" property for snakemake record",
                obj["event"], obj)
         ELSE [kind |-> "model",
               model |-> SNAKEMAKE_RECORD_MODELS[obj["event"]]]
    ELSE IF obj["event"] \notin DOMAIN META_RECORD_MODELS
         THEN JsonParseError("Invalid \"event\" property for meta record",
                obj["event"], obj)
         ELSE [kind |-> "model", model |-> META_RECORD_MODELS[obj["event"]]]

\* The fields of a model class whose type admits None: the optional ones,
\* message, and the snakefile of a WorkflowStartedRecord.
Nullable(model) ==
    (Fields(model) \ (Required(model) \cup {"levelno", "created"}))
    \cup {"message"}
    \cup (IF model = "WorkflowStartedRecord" THEN {"snakefile"} ELSE {})

\* The fields of ExceptionInfo, all required.
ExceptionInfo == {"message", "type"}

\* The fields of a model class typed ExceptionInfo | None.
StructFields(model) ==
    IF model = "FormattingErrorRecord" THEN {"exc_info", "exception"}
    ELSE {"exc_info"}

\* The fields of a model class whose type admits a dict of any keys.
DictFields(model) ==
    OwnFields(model) \cap
    {"record_partial", "wildcards", "resources", "job_error_info",
     "provided_resources", "job", "rulegraph", "stats"}

\* The keys met inside nested objects.
NestedKeys == {"message", "type", "levelno", "created", "exc_info"}

\* The key a flat dict holds a nested member under.
Dotted(field, key) == field \o "." \o key

\* The keys of obj that hold the members of the nested object under field.
NestedUnder(obj, field) ==
    {Dotted(field, key) : key \in NestedKeys} \cap DOMAIN obj

\* The Python value a JSON value is validated to: null becomes None, any
\* other value is kept as its text.
FromJson(value) == IF value = "null" THEN "None" ELSE value

\* adapter_cache.validate_python(model, obj): pydantic's validation of a
\* dict against a dataclass with the default config.  A missing field that
\* has no default is an error, and so are null for a field whose type does
\* not admit None, an object for a field that is neither an ExceptionInfo
\* nor a dict, anything but an object or null for an ExceptionInfo, and an
\* ExceptionInfo without its two fields; a key that is not a field is
\* ignored, in an ExceptionInfo too.  Of the types of the fields nothing
\* else is followed: any other value is taken as it is.
validate_python(model, obj) ==
    LET given == DOMAIN obj \cap Fields(model)
        structs == {k \in given \cap StructFields(model) : obj[k] = "{"}
        dicts == {k \in given \cap DictFields(model) : obj[k] = "{"}
        kept == given
                \cup {Dotted(k, m) : <<k, m>> \in structs \X ExceptionInfo}
                \cup UNION {NestedUnder(obj, k) : k \in dicts}
    IN IF ~(Required(model) \subseteq DOMAIN obj)
       THEN DecodeError("ValidationError: Field required")
       ELSE IF \E k \in given : obj[k] = "null" /\ k \notin Nullable(model)
       THEN DecodeError("ValidationError: Input should not be None")
       ELSE IF \E k \in given : obj[k] = "{" /\ k \notin structs \cup dicts
       THEN DecodeError("ValidationError: Input should not be a dict")
       ELSE IF \E k \in given \cap StructFields(model) :
                    obj[k] \notin {"{", "null"}
       THEN DecodeError("ValidationError: Input should be a dictionary")
       ELSE IF ~(kept \subseteq DOMAIN obj)
       THEN DecodeError("ValidationError: Field required")
       ELSE DecodedRecord(model,
                [k \in kept |-> FromJson(obj[k])],
                Fields(model) \ DOMAIN obj)

\* logrecord_from_json on a mapping.
logrecord_from_json(obj) ==
    LET selected == get_record_model(obj)
    IN IF selected.kind = "error" THEN selected
       ELSE validate_python(selected.model,
                pop(pop(pop(obj, "type"), "event"), "levelname"))

\* Number of objects given to the decoder.
MaxDecodes == 2

\* The keys every serialized record has besides type and event.
Common ==
    [levelname |-> "INFO", message |-> "text", levelno |-> "20",
     created |-> "1.5"]

\* One serialized record of each kind: a standard record, the three meta
\* events the writer's documentation names, and two Snakemake events.
Examples ==
    {[type |-> "standard"] @@ Common,
     [type |-> "meta", event |-> "logging_started", pid |-> "100"] @@ Common,
     [type |-> "meta", event |-> "formatting_error", record_partial |-> "{"]
        @@ Common,
     [type |-> "meta", event |-> "logging_finished"] @@ Common,
     [type |-> "snakemake", event |-> "job_finished", job_id |-> "1"]
        @@ Common,
     [type |-> "snakemake", event |-> "progress", done |-> "1",
      total |-> "2"] @@ Common}

\* Keys that are not a field of any of the example records' models.
ExtraKeys == {"unknown", "jobid"}

\* Event values put in place of an example's own: one that no registry
\* has, one of the Snakemake registry and one of the meta registry.
EventTags == {"not_a_real_event", "job_finished", "logging_started"}

\* The objects given to the decoder: the examples, and each example with
\* one key removed, with one key added, with another type, and with another
\* event (the standard example, which has none, with an event added).
Objects ==
    Examples
    \cup {pop(obj, key) : <<obj, key>> \in
            {pair \in Examples \X (DOMAIN Common \cup
                {"type", "event", "pid", "record_partial", "job_id",
                 "done", "total"}) : pair[2] \in DOMAIN pair[1]}}
    \cup {(key :> "1") @@ obj : <<obj, key>> \in Examples \X ExtraKeys}
    \cup {[obj EXCEPT !["type"] = "bogus"] : obj \in Examples}
    \cup {("event" :> event) @@ pop(obj, "event") :
            <<obj, event>> \in Examples \X EventTags}

\* One call logrecord_from_json(obj), recorded with its result.
Decode ==
    /\ Len(decoded) < MaxDecodes
    /\ \E obj \in Objects :
        decoded' = Append(decoded,
            [obj |-> obj, result |-> logrecord_from_json(obj)])
    /\ UNCHANGED <<run_vars, parser_vars, reader_vars>>
    /\ UNCHANGED <<write_vars, loading, formatted>>

DecoderNext == Decode

SpecDecoder == Init /\ [][DecoderNext]_vars

\* A key of the object that is neither a transport key nor a field of the
\* model class selected for it.
UnknownKeys(obj) ==
    IF get_record_model(obj).kind # "model" THEN {}
    ELSE {key \in DOMAIN obj \ TransportKeys :
            key \notin Fields(get_record_model(obj).model)}

\* C19 as stated: decoding an object that has a key outside the selected
\* model's fields and the transport keys fails; the key is never dropped
\* silently.
C19_UnknownFieldIsError ==
    \A i \in 1..Len(decoded) :
        UnknownKeys(decoded[i].obj) # {} => decoded[i].result.kind = "error"

\* C20 as stated: a meta object with event logging_finished and the base
\* fields decodes to a LoggingFinished record.
C20_LoggingFinishedDecodes ==
    \A i \in 1..Len(decoded) :
        (/\ {"type", "event", "message", "levelno"}
                \subseteq DOMAIN decoded[i].obj
         /\ decoded[i].obj["type"] = "meta"
         /\ decoded[i].obj["event"] = "logging_finished")
        => /\ decoded[i].result.kind = "record"
           /\ decoded[i].result.cls = "LoggingFinishedRecord"

\* ------------------------------------------------------------------------
\* Log file reader (json.py, parse_logfile)
\* ------------------------------------------------------------------------

\* What a next() call on the generator gives the consumer: a record, an
\* exception, or StopIteration.
Yield(record, start, end) ==
    [kind |-> "record", record |-> record, start |-> start, end |-> end]
Propagate(error) == [kind |-> "error", error |-> error]
StopIteration == [kind |-> "stop"]

\* parse_logfile as it would be if it went on with the next line after a
\* failure instead of ending.
parse_logfile_resyncs(self, source, n) ==
    LET call == process_line(self, source[n + 1])
        result == call.result
        record == logrecord_from_json(result.value)
    IN IF result.kind = "error"
       THEN [call |-> call, consumed |-> n + 1, gen |-> "suspended",
             out |-> Propagate(result)]
       ELSE IF result.kind = "none"
       THEN [call |-> call, consumed |-> n + 1, gen |-> "running",
             out |-> None]
       ELSE IF record.kind = "error"
       THEN [call |-> call, consumed |-> n + 1, gen |-> "suspended",
             out |-> Propagate(record)]
       ELSE [call |-> call, consumed |-> n + 1, gen |-> "suspended",
             out |-> Yield(record, result.start, result.end)]

\* parse_logfile as it would be if it fetched the line after an object
\* before yielding the object's record.
parse_logfile_reads_ahead(self, source, n) ==
    LET call == process_line(self, source[n + 1])
        result == call.result
        record == logrecord_from_json(result.value)
        ahead == IF n + 2 <= Len(source) THEN n + 2 ELSE n + 1
    IN IF result.kind = "error"
       THEN [call |-> call, consumed |-> n + 1, gen |-> "failed",
             out |-> Propagate(result)]
       ELSE IF result.kind = "none"
       THEN [call |-> call, consumed |-> n + 1, gen |-> "running",
             out |-> None]
       ELSE IF record.kind = "error"
       THEN [call |-> call, consumed |-> ahead, gen |-> "failed",
             out |-> Propagate(record)]
       ELSE [call |-> call, consumed |-> ahead, gen |-> "suspended",
             out |-> Yield(record, result.start, result.end)]

\* One turn of the loops of parse_logfile and process_lines on a running
\* generator that has taken n lines from its source: the next line is
\* taken and given to process_line (call); an object it returns is decoded
\* and the record yielded, which suspends the generator; an exception from
\* either ends the generator and goes to the consumer.
parse_logfile(self, source, n) ==
    LET call == process_line(self, source[n + 1])
        result == call.result
        record == logrecord_from_json(result.value)
    IN IF result.kind = "error"
       THEN [call |-> call, consumed |-> n + 1, gen |-> "failed",
             out |-> Propagate(result)]
       ELSE IF result.kind = "none"
       THEN [call |-> call, consumed |-> n + 1, gen |-> "running",
             out |-> None]
       ELSE IF record.kind = "error"
       THEN [call |-> call, consumed |-> n + 1, gen |-> "failed",
             out |-> Propagate(record)]
       ELSE [call |-> call, consumed |-> n + 1, gen |-> "suspended",
             out |-> Yield(record, result.start, result.end)]

\* The end of parse_logfile, reached when the source has no more lines:
\* parser.complete() is called; its exception goes to the consumer,
\* otherwise the generator returns.
parse_logfile_end(self) ==
    IF complete(self).kind = "error"
    THEN [gen |-> "failed", out |-> Propagate(complete(self))]
    ELSE [gen |-> "done", out |-> StopIteration]

\* Number of lines of a log file.
MaxFileLines == 4

\* The lines of the log files read: a single-line standard record, a
\* single-line object that lacks the record's required fields, the two
\* boundary lines, the members of a standard record and the type member
\* alone as indented lines of a multi-line object, and a line that does not
\* start with a brace.
FileTexts ==
    {<<LB, TypeStandard, Message, Levelno, RB>>,
     <<LB, TypeStandard, RB>>,
     <<LB>>, <<RB>>,
     <<SP, TypeStandard, Message, Levelno>>,
     <<SP, TypeStandard>>,
     <<TypeStandard>>}

FileLines == {text \o <<NL>> : text \in FileTexts}

Files == UNION {[1..n -> FileLines] : n \in 0..MaxFileLines}

\* parse_logfile(lines) is called on a file: the generator exists and has
\* run nothing yet.
Open ==
    /\ gen = "none"
    /\ \E file \in Files : lines' = file
    /\ gen' = "suspended"
    /\ UNCHANGED <<consumed, yielded>>
    /\ UNCHANGED <<run_vars, parser_vars, decoded>>
    /\ UNCHANGED <<write_vars, loading, formatted>>

\* The consumer calls next() on the suspended generator.
Resume ==
    /\ gen = "suspended"
    /\ gen' = "running"
    /\ UNCHANGED <<lines, consumed, yielded>>
    /\ UNCHANGED <<run_vars, parser_vars, decoded>>
    /\ UNCHANGED <<write_vars, loading, formatted>>

\* The running generator takes the next line of its source.
ReadLine ==
    /\ gen = "running"
    /\ consumed < Len(lines)
    /\ LET turn == parse_logfile(Parser, lines, consumed)
       IN /\ current_line' = turn.call.state.current_line
          /\ current_obj' = turn.call.state.current_obj
          /\ current_started' = turn.call.state.current_started
          /\ pcalls' = Append(pcalls,
                [op |-> "process_line", line |-> lines[consumed + 1],
                 lineno |-> turn.call.state.current_line,
                 was_open |-> current_obj # <<>>,
                 is_open |-> turn.call.state.current_obj # <<>>,
                 result |-> turn.call.result])
          /\ consumed' = turn.consumed
          /\ gen' = turn.gen
          /\ yielded' = IF turn.out = None THEN yielded
                        ELSE Append(yielded, turn.out)
    /\ UNCHANGED <<lines, run_vars, decoded>>
    /\ UNCHANGED <<write_vars, loading, formatted>>

\* The running generator finds its source exhausted.
EndOfLines ==
    /\ gen = "running"
    /\ consumed = Len(lines)
    /\ pcalls' = Append(pcalls,
            [op |-> "complete", line |-> <<>>, lineno |-> current_line,
             was_open |-> current_obj # <<>>,
             is_open |-> current_obj # <<>>,
             result |-> complete(Parser)])
    /\ gen' = parse_logfile_end(Parser).gen
    /\ yielded' = Append(yielded, parse_logfile_end(Parser).out)
    /\ UNCHANGED <<lines, consumed>>
    /\ UNCHANGED <<current_line, current_obj, current_started>>
    /\ UNCHANGED <<run_vars, decoded>>
    /\ UNCHANGED <<write_vars, loading, formatted>>

\* The consumer calls next() on a generator that an exception has ended.
NextAfterFailure ==
    /\ gen = "failed"
    /\ yielded[Len(yielded)].kind = "error"
    /\ yielded' = Append(yielded, StopIteration)
    /\ UNCHANGED <<lines, consumed, gen>>
    /\ UNCHANGED <<run_vars, parser_vars, decoded>>
    /\ UNCHANGED <<write_vars, loading, formatted>>

ReaderNext == Open \/ Resume \/ ReadLine \/ EndOfLines \/ NextAfterFailure

SpecReader == Init /\ [][ReaderNext]_vars

\* ------------------------------------------------------------------------
\* History of one reader
\* ------------------------------------------------------------------------

IsRecord(out) == out.kind = "record"

\* The records handed to the consumer so far, in order.
Records_yielded == SelectSeq(yielded, IsRecord)

\* What the step's next() call hands to the consumer.
Delivered == yielded'[Len(yielded')]

\* C14: when the generator finds its source exhausted it makes the
\* end-of-input check.  With an object open the consumer gets a parse error
\* whose start line is the line of the object's opening "{"; with none open
\* the generator ends normally.  The generator ends normally in no other
\* step.
C14_EndOfInputCheck ==
    [][/\ (gen = "running" /\ consumed = Len(lines) /\ yielded' # yielded)
            => IF current_obj # <<>>
               THEN /\ gen' = "failed"
                    /\ Delivered.kind = "error"
                    /\ Delivered.error.start_line = current_started
                    /\ rstrip(lines[current_started]) = <<LB>>
                    /\ ClosingLine(lines, current_started + 1) = 0
               ELSE /\ gen' = "done"
                    /\ Delivered = StopIteration
       /\ (gen # "done" /\ gen' = "done")
            => /\ consumed = Len(lines)
               /\ current_obj = <<>>
               /\ ThisParserCall.op = "complete"]_vars

\* A file that ends inside a multi-line object opened on its second line:
\* the first record was yielded, then the end-of-input error for line 2.
C14_Witness ==
    /\ gen = "failed"
    /\ consumed = Len(lines)
    /\ Len(yielded) = 2
    /\ yielded[1].kind = "record"
    /\ yielded[2].kind = "error"
    /\ yielded[2].error.msg = "JSON object not closed"
    /\ yielded[2].error.start_line = 2
    /\ yielded[2].error.end_line = Len(lines)
    /\ Len(lines) > 2

\* C17: nothing but StopIteration is handed to the consumer after an
\* exception, and the records handed over are, in order, the decoded
\* objects the parser framed; an object framed and not handed over is the
\* last one, and its decoding is the failure.
C17_StopsAtFirstFailure ==
    /\ \A i, j \in 1..Len(yielded) :
        (i < j /\ yielded[i].kind = "error") => yielded[j].kind = "stop"
    /\ Len(Records_yielded) <= Len(Framed)
    /\ \A i \in 1..Len(Records_yielded) :
        Records_yielded[i] =
            Yield(logrecord_from_json(Framed[i].value),
                  Framed[i].start, Framed[i].end)
    /\ Len(Records_yielded) < Len(Framed)
        => /\ Len(Framed) = Len(Records_yielded) + 1
           /\ logrecord_from_json(Framed[Len(Framed)].value).kind = "error"
           /\ gen = "failed"

\* A record was yielded, the second object failed to decode, the consumer
\* asked again and got StopIteration, and a line is left unread.
C17_Witness ==
    /\ Len(yielded) = 3
    /\ yielded[1].kind = "record"
    /\ yielded[2].kind = "error"
    /\ yielded[3].kind = "stop"
    /\ Len(Framed) = 2
    /\ consumed < Len(lines)

\* C18: lines are taken from the source only while the generator runs,
\* that is between a next() call and what it hands over; and when a record
\* is handed over, the lines taken are those up to the last line of its
\* object.
C18_PullOnly ==
    [][/\ consumed' # consumed => gen = "running"
       /\ (yielded' # yielded /\ Delivered.kind = "record")
            => /\ consumed' = Delivered.end
               /\ Delivered.end = Framed'[Len(Records_yielded')].end
               /\ gen' = "suspended"]_vars

\* The second record, of a multi-line object on lines 2 to 4, has been
\* yielded to a consumer that has not asked for more: four lines are taken.
C18_Witness ==
    /\ gen = "suspended"
    /\ Len(Records_yielded) = 2
    /\ yielded[2].start = 2 /\ yielded[2].end = 4
    /\ consumed = 4

\* An object without the transport keys, as given to validate_python.
Stripped(obj) == pop(pop(pop(obj, "type"), "event"), "levelname")

\* The result is the JsonParseError of _get_record_model for this object,
\* quoting this value.
Refused(result, obj, value) ==
    /\ result.kind = "error"
    /\ "data" \in DOMAIN result
    /\ result.data = obj
    /\ result.value = value

\* C22: an object without "type" fails to decode, and so does one whose
\* type is not standard, meta or snakemake, the error carrying that value.
\* An object of type standard is validated as a StandardLogRecord whatever
\* its "event", and decodes to what it decodes to without the key.
C22_TypeSelectsCategory ==
    \A i \in 1..Len(decoded) :
        LET obj == decoded[i].obj
            result == decoded[i].result
        IN IF "type" \notin DOMAIN obj
           THEN Refused(result, obj, "")
           ELSE IF obj["type"] \notin {"standard", "meta", "snakemake"}
           THEN Refused(result, obj, obj["type"])
           ELSE obj["type"] = "standard" =>
                /\ result = validate_python("StandardLogRecord",
                                Stripped(obj))
                /\ result = logrecord_from_json(pop(obj, "event"))

\* A standard object with an event no registry has was decoded to a
\* StandardLogRecord, and an object of another type was refused.
C22_Witness ==
    /\ Len(decoded) = 2
    /\ {"type", "event"} \subseteq DOMAIN decoded[1].obj
    /\ "type" \in DOMAIN decoded[2].obj
    /\ decoded[1].obj["type"] = "standard"
    /\ decoded[1].obj["event"] = "not_a_real_event"
    /\ decoded[1].result.kind = "record"
    /\ decoded[1].result.cls = "StandardLogRecord"
    /\ decoded[2].obj["type"] = "bogus"
    /\ decoded[2].result.kind = "error"

\* The registry of a category.
Registry(type) ==
    IF type = "meta" THEN META_RECORD_MODELS ELSE SNAKEMAKE_RECORD_MODELS

\* C23: for an object of type meta or snakemake, a missing event is a
\* decode failure, an event that is not in the registry of the object's own
\* category is a decode failure carrying the event, and an event that is in
\* it has the object validated as the model registered under it.
C23_EventSelectsVariant ==
    \A i \in 1..Len(decoded) :
        LET obj == decoded[i].obj
            result == decoded[i].result
        IN ("type" \in DOMAIN obj /\ obj["type"] \in {"meta", "snakemake"})
           => IF "event" \notin DOMAIN obj
              THEN Refused(result, obj, obj["type"])
              ELSE IF obj["event"] \notin DOMAIN Registry(obj["type"])
              THEN Refused(result, obj, obj["event"])
              ELSE result = validate_python(
                        Registry(obj["type"])[obj["event"]], Stripped(obj))

\* A meta object tagged with an event of the Snakemake registry was
\* refused, and a Snakemake object with that event was decoded.
C23_Witness ==
    /\ Len(decoded) = 2
    /\ {"type", "event"} \subseteq DOMAIN decoded[1].obj
    /\ "type" \in DOMAIN decoded[2].obj
    /\ decoded[1].obj["type"] = "meta"
    /\ decoded[1].obj["event"] = "job_finished"
    /\ Refused(decoded[1].result, decoded[1].obj, "job_finished")
    /\ decoded[2].obj["type"] = "snakemake"
    /\ decoded[2].result.kind = "record"
    /\ decoded[2].result.cls = "JobFinishedRecord"

\* ------------------------------------------------------------------------
\* Reducer: failed calls and the records held for a job
\* ------------------------------------------------------------------------

\* The errors a handler of the reducer raises.
ReductionErrors ==
    {"Duplicate JOB_INFO event", "JOB_FINISHED event before JOB_INFO",
     "Duplicate JOB_FINISHED event", "Duplicate WORKFLOW_STARTED event",
     "Duplicate RULEGRAPH event"}

\* C27: a process_record call that raises a reduction error leaves logs,
\* jobs (with every job's log list and finished), the pending buffer,
\* workflow_id, snakefile and rulegraph as they were before the call.
C27_FailedCallChangesNothing ==
    [][(calls' # calls /\ ThisCall.error \in ReductionErrors)
        => /\ logs' = logs
           /\ jobs' = jobs
           /\ job_logs' = job_logs
           /\ workflow_id' = workflow_id
           /\ snakefile' = snakefile
           /\ rulegraph' = rulegraph]_vars

\* A second Rulegraph record was refused by a reducer that holds a
\* rulegraph, a job and its records.
C27_Witness ==
    /\ Len(calls) = 3
    /\ calls[3].error = "Duplicate RULEGRAPH event"
    /\ rulegraph # None
    /\ Len(logs) = 2
    /\ DOMAIN jobs # {}

\* The list that holds the records of job j: the job's log list when the
\* job is known, the pending list for j when it is not.
Holder(j) == IF j \in DOMAIN jobs THEN jobs[j].logs ELSE Pending(j)

\* The calls that returned after reducing record r.
Reduced(r) == {i \in 1..Len(calls) : Ok(calls[i]) /\ calls[i].record = r}

\* The records of the calls that returned.
Processed == {calls[i].record : i \in {k \in 1..Len(calls) : Ok(calls[k])}}

\* C28: every Snakemake record reduced is held, for each of its associated
\* job ids j, in the list that holds the records of j, at least once for
\* each call that reduced it; and every record of a job log list or of a
\* pending list is in logs.
C28_JobRecordsAreKept ==
    /\ \A r \in Processed : r.type = "snakemake" =>
        \A j \in JobIds : Mentions(associated_jobs(r), j) > 0 =>
            Occurrences(Holder(j), r) >= Cardinality(Reduced(r))
    /\ \A j \in DOMAIN jobs : \A k \in 1..Len(jobs[j].logs) :
        Occurrences(logs, jobs[j].logs[k]) > 0
    /\ \A j \in DOMAIN job_logs : \A k \in 1..Len(job_logs[j]) :
        Occurrences(logs, job_logs[j][k]) > 0

\* A record that named job 1 came before the job's JobInfo record and one
\* came after it; job 1 holds the three records, and nothing is pending.
C28_Witness ==
    /\ Len(calls) = 3
    /\ \A i \in 1..3 : Ok(calls[i])
    /\ calls[1].record.cls = "ShellCmdRecord"
    /\ IsJobInfo(calls[2].record, 1)
    /\ calls[3].record.cls = "JobStartedRecord"
    /\ 1 \in DOMAIN jobs
    /\ Len(jobs[1].logs) = 3
    /\ DOMAIN job_logs = {}

\* C29 as stated: a record is in any one job's log list, and in any one
\* pending list, at most once for each call that reduced it, also when its
\* list of job ids names the job more than once.
C29_AttachedOncePerJob ==
    \A r \in Processed : \A j \in JobIds :
        Occurrences(Holder(j), r) <= Cardinality(Reduced(r))

\* ------------------------------------------------------------------------
\* Parser: the open object after a failure
\* ------------------------------------------------------------------------

\* Whether, after the first n of the lines ls, a line equal to "{" has
\* opened an object and no line equal to "}" has been fed since.
RECURSIVE OpenedAndNotClosed(_, _)
OpenedAndNotClosed(ls, n) ==
    IF n = 0 THEN FALSE
    ELSE IF OpenedAndNotClosed(ls, n - 1)
    THEN rstrip(ls[n]) # <<RB>>
    ELSE rstrip(ls[n]) = <<LB>>

\* C30 as stated: after any sequence of process_line calls, those that
\* raised included, the parser holds an open object exactly when a "{" line
\* opened one and no "}" line has been fed since, and complete() reports an
\* unterminated object in no other case.
C30_OpenExactlyBetweenBraces ==
    /\ current_obj # <<>> <=> OpenedAndNotClosed(Fed, Len(Fed))
    /\ \A i \in 1..Len(pcalls) :
        pcalls[i].op = "complete" =>
            (pcalls[i].result.kind = "error" <=> pcalls[i].was_open)

\* ---------------------------------------------------------------------------
\* Model registries (models.py, make_registration_decorator).
\* ---------------------------------------------------------------------------

\* A record class as the decorator sees it: its name and the value of the
\* attribute named by attrname (its event).
RecordClass(name, key) == [name |-> name, key |-> key]

\* What one use of the decorator leaves: the registry and whether it raised
\* ValueError('Model already registered for key ...').
Registered(reg, raised) == [registry |-> reg, raised |-> raised]

\* Not the program: a decorator that stores the class without looking whether
\* the key is taken.
register_overwrite(reg, cls) ==
    Registered((cls.key :> cls.name) @@ reg, FALSE)

\* decorator(cls): the key is read from the class; a key already in the
\* registry raises before anything is stored, otherwise the class is stored
\* under its key.
register(reg, cls) ==
    IF cls.key \in DOMAIN reg
    THEN Registered(reg, TRUE)
    ELSE Registered((cls.key :> cls.name) @@ reg, FALSE)

\* The number of registrations followed.
MaxRegistrations == 3

\* The classes offered to the decorator: three names, each under any of three
\* events, so that two different classes can claim one key.
ClassNames == {"ErrorRecord", "JobInfoRecord", "ShellCmdRecord"}

ClassKeys == {"error", "job_info", "shellcmd"}

Classes == {RecordClass(name, key) : <<name, key>> \in ClassNames \X ClassKeys}

\* @decorator on one class definition.  A ValueError leaves the registry as
\* it was; the history keeps the registry before and after.
Register(cls) ==
    /\ Len(rcalls) < MaxRegistrations
    /\ LET done == register(registry, cls)
       IN  /\ registry' = done.registry
           /\ rcalls' = Append(rcalls, [cls |-> cls,
                                        raised |-> done.raised,
                                        before |-> registry,
                                        after |-> done.registry])
    /\ UNCHANGED <<read_vars, trip, handler_vars>>

RegistryNext == \E cls \in Classes : Register(cls)

SpecRegistry == Init /\ [][RegistryNext]_vars

\* The first registration in the history under the given key.
FirstUnder(key) ==
    LET at == {i \in 1..Len(rcalls) : rcalls[i].cls.key = key}
    IN  rcalls[CHOOSE i \in at : \A j \in at : i <= j].cls.name

\* C26: a registration under a key the registry already holds raises at once
\* and leaves the registry as it was, any other registration adds the class
\* under its key and raises nothing; so every key of the registry maps to the
\* one class that was registered under it first.
C26_DuplicateKeyFailsFast ==
    /\ \A i \in 1..Len(rcalls) :
          LET call == rcalls[i]
          IN  IF call.cls.key \in DOMAIN call.before
              THEN call.raised /\ call.after = call.before
              ELSE /\ ~call.raised
                   /\ call.after = (call.cls.key :> call.cls.name) @@ call.before
    /\ DOMAIN registry = {rcalls[i].cls.key : i \in 1..Len(rcalls)}
    /\ \A key \in DOMAIN registry : registry[key] = FirstUnder(key)

\* A second class was registered under a taken key and refused, while the
\* registry holds two classes.
C26_Witness ==
    /\ Cardinality(DOMAIN registry) = 2
    /\ \E i \in 1..Len(rcalls) :
          /\ rcalls[i].raised
          /\ rcalls[i].before[rcalls[i].cls.key] # rcalls[i].cls.name

\* ---------------------------------------------------------------------------
\* Serialization (models.py, JsonLogRecord._serialize; logger.py,
\* JsonFormatter) and the way back.
\* ---------------------------------------------------------------------------

\* A record in memory is a DecodedRecord: its class and its attributes in a
\* flat dict, an ExceptionInfo or a dict held as "{" with its members under
\* dotted keys, None held as "None".  The values of the other attributes
\* are held as their JSON texts and are not followed from text to value.

\* ALL_MODELS: the standard model and the models of the two registries.
ALL_MODELS ==
    {"StandardLogRecord"}
    \cup {META_RECORD_MODELS[e] : e \in DOMAIN META_RECORD_MODELS}
    \cup {SNAKEMAKE_RECORD_MODELS[e] : e \in DOMAIN SNAKEMAKE_RECORD_MODELS}

\* The class attribute type of a model class.
TypeOf(model) ==
    IF model = "StandardLogRecord" THEN "standard"
    ELSE IF \E e \in DOMAIN META_RECORD_MODELS : META_RECORD_MODELS[e] = model
    THEN "meta"
    ELSE "snakemake"

\* The class attribute event of a model class that has one, as str() gives
\* it: the key the class is registered under.
EventOf(model) ==
    IF TypeOf(model) = "meta"
    THEN CHOOSE e \in DOMAIN META_RECORD_MODELS :
            META_RECORD_MODELS[e] = model
    ELSE CHOOSE e \in DOMAIN SNAKEMAKE_RECORD_MODELS :
            SNAKEMAKE_RECORD_MODELS[e] = model

\* logging.getLevelName(levelno) for the levels of NAMED_LEVELS, None for
\* any other.
LevelName(levelno) ==
    CASE levelno = "10" -> "DEBUG"
      [] levelno = "20" -> "INFO"
      [] levelno = "30" -> "WARNING"
      [] levelno = "40" -> "ERROR"
      [] levelno = "50" -> "CRITICAL"
      [] OTHER -> "null"

\* The fields a model class declares itself, in the order of declaration.
OwnOrder(model) ==
    CASE model = "StandardLogRecord" -> <<>>
      [] model = "LoggingStartedRecord" -> <<"pid", "proc_started">>
      [] model = "FormattingErrorRecord" -> <<"record_partial", "exception">>
      [] model = "ErrorRecord" ->
            <<"exception", "location", "rule", "trackeback", "file", "line">>
      [] model = "WorkflowStartedRecord" -> <<"workflow_id", "snakefile">>
      [] model = "JobInfoRecord" ->
            <<"jobid", "rule_name", "threads", "input", "output", "log",
              "benchmark", "rule_msg", "wildcards", "reason", "shellcmd",
              "priority", "resources">>
      [] model = "JobStartedRecord" -> <<"jobs">>
      [] model = "JobFinishedRecord" -> <<"job_id">>
      [] model = "ShellCmdRecord" -> <<"jobid", "shellcmd", "rule_name">>
      [] model = "JobErrorRecord" -> <<"jobid">>
      [] model = "GroupInfoRecord" -> <<"group_id", "jobs">>
      [] model = "GroupErrorRecord" ->
            <<"groupid", "aux_logs", "job_error_info">>
      [] model = "ResourcesInfoRecord" ->
            <<"nodes", "cores", "provided_resources">>
      [] model = "DebugDagRecord" -> <<"status", "job", "file", "exception">>
      [] model = "ProgressRecord" -> <<"done", "total">>
      [] model = "RulegraphRecord" -> <<"rulegraph">>
      [] model = "RunInfoRecord" -> <<"stats">>

\* The fields of a model class in the order of the dataclass: those of
\* JsonLogRecord, then its own.
FieldOrder(model) ==
    <<"message", "levelno", "created", "exc_info">> \o OwnOrder(model)

\* The members of a nested object, in the order they are written.
NestedOrder == <<"message", "levelno", "created", "exc_info", "type">>

\* The default of a field that has one: the creation time for created, the
\* level and message the two meta models set, None for every other.
Default(model, field) ==
    IF field = "created" THEN "now"
    ELSE IF field = "levelno" /\ model = "LoggingStartedRecord" THEN "20"
    ELSE IF field = "levelno" /\ model = "FormattingErrorRecord" THEN "40"
    ELSE IF field = "message" /\ model = "LoggingStartedRecord"
    THEN "JSON logging plugin initialized"
    ELSE IF field = "message" /\ model = "FormattingErrorRecord"
    THEN "Error converting log record to JSON"
    ELSE "None"

\* The attributes of a record: the fields it was given, and the defaults of
\* the others.  Two records of one class are equal when these are.
Attrs(record) ==
    record.fields @@
    [k \in record.defaulted |-> Default(record.cls, k)]

\* The JSON value a Python value is written as: None becomes null.
ToJson(value) == IF value = "None" THEN "null" ELSE value

\* Not the program: a serializer that leaves out every attribute that is
\* None.
serialize_excludes_none(record) ==
    LET attrs == Attrs(record)
        set == {k \in DOMAIN attrs : attrs[k] # "None"}
    IN  [k \in set |-> attrs[k]]
        @@ ("type" :> TypeOf(record.cls))
        @@ (IF TypeOf(record.cls) = "standard" THEN EmptyDict
            ELSE "event" :> EventOf(record.cls))
        @@ ("levelname" :> LevelName(attrs["levelno"]))

\* JsonLogRecord._serialize: the dict starts with type, event (of a class
\* that has one) and levelname, is updated with the record's attributes,
\* and loses exc_info when that is None.
serialize(record) ==
    LET attrs == Attrs(record)
        d == [k \in DOMAIN attrs |-> ToJson(attrs[k])]
             @@ ("type" :> TypeOf(record.cls))
             @@ (IF TypeOf(record.cls) = "standard" THEN EmptyDict
                 ELSE "event" :> EventOf(record.cls))
             @@ ("levelname" :> LevelName(attrs["levelno"]))
    IN  IF d["exc_info"] = "null" THEN pop(d, "exc_info") ELSE d

\* The rows a dict is written as: one for each member, at its depth, a
\* nested object as the row of its member, the rows of its own members and
\* the row of its closing brace.
RECURSIVE NestedRows(_, _, _)
NestedRows(d, field, keys) ==
    IF keys = <<>> THEN <<>>
    ELSE (IF Dotted(field, Head(keys)) \in DOMAIN d
          THEN <<[depth |-> 2,
                  token |-> <<Head(keys), d[Dotted(field, Head(keys))]>>]>>
          ELSE <<>>)
         \o NestedRows(d, field, Tail(keys))

RECURSIVE Rows(_, _)
Rows(d, keys) ==
    IF keys = <<>> THEN <<>>
    ELSE LET k == Head(keys)
         IN (IF k \notin DOMAIN d THEN <<>>
             ELSE IF d[k] = "{"
             THEN <<[depth |-> 1, token |-> <<k, "{">>]>>
                  \o NestedRows(d, k, NestedOrder)
                  \o <<[depth |-> 1, token |-> RB]>>
             ELSE <<[depth |-> 1, token |-> <<k, d[k]>>]>>)
            \o Rows(d, Tail(keys))

\* indent=2: two spaces for each level.
RECURSIVE Indent(_)
Indent(depth) == IF depth = 0 THEN <<>> ELSE <<SP, SP>> \o Indent(depth - 1)

\* adapter_cache.dump_json(record, indent=...): the lines of the text.
\* Without indent the object is one line without whitespace; with indent=2
\* the braces of the object stand alone on the first and the last line and
\* every row is a line of its own, indented by its depth.
dump_json(record, indent) ==
    LET d == serialize(record)
        rows == Rows(d, <<"type", "event", "levelname">>
                        \o FieldOrder(record.cls))
    IN  IF indent
        THEN <<<<LB>>>>
             \o [i \in 1..Len(rows) |->
                    Indent(rows[i].depth) \o <<rows[i].token>>]
             \o <<<<RB>>>>
        ELSE <<<<LB>> \o [i \in 1..Len(rows) |-> rows[i].token] \o <<RB>>>>

\* JsonFormatter.format(record) for a record that is a JsonLogRecord.
format(record, indent) == dump_json(record, indent)

\* str.splitlines(keepends=True) of a text whose lines are given, its last
\* line without a newline.
Splitlines(text) ==
    [i \in 1..Len(text) |->
        IF i < Len(text) THEN text[i] \o <<NL>> ELSE text[i]]

\* logrecord_from_json on a str: json.loads, then as on a mapping.
logrecord_from_json_str(data) ==
    IF ~json_loads(data).ok THEN DecodeError("JSONDecodeError")
    ELSE logrecord_from_json(json_loads(data).value)

\* JsonObjectParser(): a new parser.
JsonObjectParser ==
    [current_line |-> 0, current_obj |-> <<>>, current_started |-> 0]

\* list(parse_logfile(source)) from the n-th line on with the parser self:
\* the records yielded, and last the exception if one ended the generator.
RECURSIVE list_parse_logfile(_, _, _)
list_parse_logfile(self, source, n) ==
    IF n = Len(source)
    THEN IF parse_logfile_end(self).gen = "failed"
         THEN <<parse_logfile_end(self).out.error>>
         ELSE <<>>
    ELSE LET turn == parse_logfile(self, source, n)
         IN IF turn.gen = "failed" THEN <<turn.out.error>>
            ELSE (IF turn.gen = "suspended" THEN <<turn.out.record>>
                  ELSE <<>>)
                 \o list_parse_logfile(turn.call.state, source, n + 1)

\* The value an attribute is given in the records followed: an
\* ExceptionInfo and the dict record_partial are objects, any other a
\* scalar.
Sample(model, field) ==
    IF field \in StructFields(model) \cup {"record_partial"} THEN "{"
    ELSE "1"

\* The members of the objects among the attributes: the two fields of an
\* ExceptionInfo, and in record_partial a type and a levelno of its own.
SampleNested(model, fields) ==
    LET structs == {k \in DOMAIN fields \cap StructFields(model) :
                        fields[k] = "{"}
    IN  [k \in {Dotted(f, "message") : f \in structs} |-> "boom"]
        @@ [k \in {Dotted(f, "type") : f \in structs} |-> "ValueError"]
        @@ (IF "record_partial" \in DOMAIN fields
            THEN (Dotted("record_partial", "type") :> "standard")
                 @@ (Dotted("record_partial", "levelno") :> "20")
            ELSE EmptyDict)

\* A record of a model class: with or without the attributes that may be
\* None, with or without exception information, with the given message and
\* level.
MakeRecord(model, optional, exc, message, levelno) ==
    LET fields ==
            [k \in Fields(model) |->
                IF k = "message" THEN message
                ELSE IF k = "levelno" THEN levelno
                ELSE IF k = "created" THEN "1.5"
                ELSE IF k = "exc_info"
                THEN IF exc THEN "{" ELSE "None"
                ELSE IF k \in Nullable(model) /\ ~optional THEN "None"
                ELSE Sample(model, k)]
    IN  DecodedRecord(model, SampleNested(model, fields) @@ fields, {})

\* The records followed: of every model class, with a named level, a level
\* without a name, and the level of an error.
ExampleRecords ==
    {MakeRecord(model, optional, exc, message, levelno) :
        <<model, optional, exc, message, levelno>> \in
            ALL_MODELS \X BOOLEAN \X BOOLEAN \X {"text", "None"}
                \X {"20", "25", "40"}}

\* A record is written, as one line or as indented lines.
Dump ==
    /\ trip.stage = "idle"
    /\ \E record \in ExampleRecords, indent \in BOOLEAN :
        trip' = [stage |-> "dumped", record |-> record, indent |-> indent,
                 text |-> format(record, indent)]
    /\ UNCHANGED <<read_vars, registry_vars, handler_vars>>

\* The text is read back: one line by logrecord_from_json, indented lines
\* through the boundary parser.
Load ==
    /\ trip.stage = "dumped"
    /\ trip' = [stage |-> "loaded", record |-> trip.record,
                indent |-> trip.indent, text |-> trip.text,
                loaded |->
                    IF trip.indent
                    THEN list_parse_logfile(JsonObjectParser,
                            Splitlines(trip.text), 0)
                    ELSE <<logrecord_from_json_str(trip.text[1])>>]
    /\ UNCHANGED <<read_vars, registry_vars, handler_vars>>

\* The next record is taken up.
Forget ==
    /\ trip.stage = "loaded"
    /\ trip' = [stage |-> "idle"]
    /\ UNCHANGED <<read_vars, registry_vars, handler_vars>>

RoundTripNext == Dump \/ Load \/ Forget

SpecRoundTrip == Init /\ [][RoundTripNext]_vars

\* The dict the written text stands for.
Written == json_loads(join(Splitlines(trip.text))).value

\* C24: a record of any model class, written as one line or as indented
\* lines and read back (the indented lines through the boundary parser),
\* comes back as exactly one record, of the same class and with the same
\* attributes; the text holds type and levelname, and event for a class
\* that has one, and the record read back holds none of the three.
C24_RoundTrip ==
    trip.stage = "loaded" =>
        /\ {"type", "levelname"} \subseteq DOMAIN Written
        /\ ("event" \in DOMAIN Written) = (trip.record.cls # "StandardLogRecord")
        /\ Len(trip.loaded) = 1
        /\ trip.loaded[1].kind = "record"
        /\ trip.loaded[1].cls = trip.record.cls
        /\ Attrs(trip.loaded[1]) = Attrs(trip.record)
        /\ DOMAIN Attrs(trip.loaded[1]) \cap TransportKeys = {}

\* A FormattingErrorRecord without exc_info, whose record_partial has a
\* type of its own, came back from indented lines; its exc_info was left
\* out of the text and is None again.
C24_Witness ==
    /\ trip.stage = "loaded"
    /\ trip.indent
    /\ trip.record.cls = "FormattingErrorRecord"
    /\ trip.record.fields["exc_info"] = "None"
    /\ trip.record.fields["exception"] = "{"
    /\ "exc_info" \notin DOMAIN Written
    /\ Written["record_partial.type"] = "standard"
    /\ Len(trip.loaded) = 1
    /\ trip.loaded[1].kind = "record"
    /\ "exc_info" \in trip.loaded[1].defaulted
    /\ Attrs(trip.loaded[1]) = Attrs(trip.record)

\* ---------------------------------------------------------------------------
\* The log handler (logger.py, JsonLogHandler).
\* ---------------------------------------------------------------------------

\* os.getpid()
Pid == "100"

\* LoggingStartedRecord(pid=os.getpid()): every other field is left to its
\* default, created to the time of the call.
LoggingStarted ==
    DecodedRecord("LoggingStartedRecord",
        [pid |-> Pid, created |-> "1.5"],
        {"message", "levelno", "exc_info", "proc_started"})

\* StreamHandler.emit(record): the text the formatter gives and the
\* terminator, as the lines that reach the stream.
Emitted(record, indent) ==
    LET text == format(record, indent)
    IN  [i \in 1..Len(text) |-> text[i] \o <<NL>>]

\* The lines of a file that holds the texts of the given records.
RECURSIVE FileOf(_, _)
FileOf(records, indent) ==
    IF records = <<>> THEN <<>>
    ELSE Emitted(Head(records), indent) \o FileOf(Tail(records), indent)

\* Not the program: a lock that is given to whoever asks for it.
acquire_unguarded(owner, thread) == [acquired |-> TRUE, owner |-> thread]

\* Handler.acquire() by a thread that does not hold the lock: the lock is
\* taken when no thread holds it, and the thread waits otherwise.
acquire(owner, thread) ==
    IF owner = Unowned
    THEN [acquired |-> TRUE, owner |-> thread]
    ELSE [acquired |-> FALSE, owner |-> owner]

\* Number of records logged through one handler.
MaxEmits == 2

\* The records logged: two standard records that differ and one Snakemake
\* record with exception information.
EmitRecords ==
    {MakeRecord("StandardLogRecord", FALSE, FALSE, "text", "20"),
     MakeRecord("StandardLogRecord", FALSE, FALSE, "None", "25"),
     MakeRecord("JobFinishedRecord", FALSE, TRUE, "text", "40")}

\* JsonLogHandler(None, settings): the file is opened for writing, the
\* formatter is given the multiline setting, and a LoggingStartedRecord is
\* written through the file handler.
Create ==
    /\ hstate = "none"
    /\ \E indent \in BOOLEAN :
        /\ multiline' = indent
        /\ stream' = Emitted(LoggingStarted, indent)
    /\ hstate' = "open"
    /\ UNCHANGED <<lock, pc, towrite, emitted>>
    /\ UNCHANGED <<read_vars, registry_vars, trip>>

\* A thread logs a record: logger.handle(record) reaches
\* JsonLogHandler.handle(record), which asks for the handler's lock.
Handle(t) ==
    /\ hstate = "open"
    /\ pc[t] = "idle"
    /\ Len(emitted) + Cardinality({u \in Threads : pc[u] = "waiting"})
            < MaxEmits
    /\ \E record \in EmitRecords :
        towrite' = [towrite EXCEPT ![t] = <<record>>]
    /\ pc' = [pc EXCEPT ![t] = "waiting"]
    /\ UNCHANGED <<hstate, multiline, stream, lock, emitted>>
    /\ UNCHANGED <<read_vars, registry_vars, trip>>

\* The thread gets the lock and JsonLogHandler.emit(record) begins: the
\* record is formatted by the file handler.
Acquire(t) ==
    /\ pc[t] = "waiting"
    /\ acquire(lock, t).acquired
    /\ lock' = acquire(lock, t).owner
    /\ emitted' = Append(emitted, towrite[t][1])
    /\ towrite' = [towrite EXCEPT ![t] = Emitted(towrite[t][1], multiline)]
    /\ pc' = [pc EXCEPT ![t] = "emit"]
    /\ UNCHANGED <<hstate, multiline, stream>>
    /\ UNCHANGED <<read_vars, registry_vars, trip>>

\* stream.write(msg + terminator) by the thread in emit, a line at a time:
\* whether the lines of two writes could mix is left to the lock.
Write(t) ==
    /\ pc[t] = "emit"
    /\ towrite[t] # <<>>
    /\ stream' = Append(stream, Head(towrite[t]))
    /\ towrite' = [towrite EXCEPT ![t] = Tail(@)]
    /\ UNCHANGED <<hstate, multiline, lock, pc, emitted>>
    /\ UNCHANGED <<read_vars, registry_vars, trip>>

\* emit has returned: Handler.release().
Release(t) ==
    /\ pc[t] = "emit"
    /\ towrite[t] = <<>>
    /\ lock' = Unowned
    /\ pc' = [pc EXCEPT ![t] = "idle"]
    /\ UNCHANGED <<hstate, multiline, stream, towrite, emitted>>
    /\ UNCHANGED <<read_vars, registry_vars, trip>>

\* JsonLogHandler.close(), called when no thread is logging: the file
\* handler is closed, and nothing is written.
Close ==
    /\ hstate = "open"
    /\ \A t \in Threads : pc[t] = "idle"
    /\ hstate' = "closed"
    /\ UNCHANGED <<multiline, stream, lock, pc, towrite, emitted>>
    /\ UNCHANGED <<read_vars, registry_vars, trip>>

HandlerNext ==
    \/ Create
    \/ \E t \in Threads : Handle(t) \/ Acquire(t) \/ Write(t) \/ Release(t)
    \/ Close

SpecHandler == Init /\ [][HandlerNext]_vars

\* list(parse_logfile(fh)) on the file as it is.
Parsed == list_parse_logfile(JsonObjectParser, stream, 0)

\* Whether what was parsed is the given records, one for one.
ParsedAre(parsed, records) ==
    /\ Len(parsed) = Len(records)
    /\ \A i \in 1..Len(parsed) :
          /\ parsed[i].kind = "record"
          /\ parsed[i].cls = records[i].cls
          /\ Attrs(parsed[i]) = Attrs(records[i])

\* C21 as stated: the file of a closed handler through which N records
\* were logged parses to N+2 records, a LoggingStarted record with the
\* process id first, the N records in the order they were logged, and a
\* LoggingFinished record last.
C21_StartedRecordsFinished ==
    hstate = "closed" =>
        /\ Len(Parsed) = Len(emitted) + 2
        /\ ParsedAre(SubSeq(Parsed, 1, Len(emitted) + 1),
                     <<LoggingStarted>> \o emitted)
        /\ Parsed[1].fields["pid"] = Pid
        /\ Parsed[Len(Parsed)].kind = "record"
        /\ Parsed[Len(Parsed)].cls = "LoggingFinishedRecord"

\* C25: whatever the threads do, the file is at every moment the beginning
\* of the whole texts of the LoggingStarted record and of the records
\* logged, in the order in which their emit calls began; and whenever no
\* thread is inside emit the file parses, without an error, to exactly
\* these records.
C25_WholeObjectsOnly ==
    LET whole == FileOf(<<LoggingStarted>> \o emitted, multiline)
    IN  hstate # "none" =>
            /\ Len(stream) <= Len(whole)
            /\ stream = SubSeq(whole, 1, Len(stream))
            /\ lock = Unowned =>
                    ParsedAre(Parsed, <<LoggingStarted>> \o emitted)

\* Two records of several lines each were logged by two threads, the
\* second thread asked for the lock while the first was writing, and both
\* texts are in the file.
C25_Witness ==
    /\ multiline
    /\ Len(emitted) = 2
    /\ emitted[1] # emitted[2]
    /\ \A t \in Threads : pc[t] = "idle"
    /\ Len(stream) > 12
    /\ ParsedAre(Parsed, <<LoggingStarted>> \o emitted)

\* ---------------------------------------------------------------------------
\* The viewer's entry point (app/cli.py, load_run).
\* ---------------------------------------------------------------------------

\* RunStatus(started=...): every other field at its default.
RunStatus(started) ==
    [started |-> started, logs |-> <<>>, jobs |-> <<>>, job_logs |-> <<>>,
     workflow_id |-> None, snakefile |-> None, rulegraph |-> None]

\* The position load_run gives add_fake_logs.
InsertAt == 5

\* add_fake_logs(logs, insertat): the list after the call and the exception
\* it raised.  logs[insertat - 1] and logs[insertat] are read first, which
\* raises IndexError on a list of insertat records or fewer; the first turn
\* of the loop then builds StandardLogRecord(levelno=..., levelname=...,
\* message=..., created=...), and levelname is a property and no field of
\* the dataclass, so the constructor raises TypeError before logs.insert
\* is reached.
add_fake_logs(logs_, insertat) ==
    IF Len(logs_) < insertat + 1
    THEN [logs |-> logs_, error |-> "IndexError"]
    ELSE [logs |-> logs_, error |-> "TypeError"]

\* Number of records in a log file that is loaded.
MaxLogRecords == 6

\* The records parse_logfile gives load_run: a standard and a meta record,
\* a Snakemake record without a handler of its own, and two JobInfo records
\* with different timestamps (the second of one job raises ValueError).
LoadRecords ==
    StandardLogRecords \cup LoggingStartedRecords \cup ProgressRecords
    \cup {r \in JobInfoRecords : r.jobid = r.created}

\* load_run(logfile) up to the first record: next(records) on a file
\* without a record raises StopIteration; otherwise the RunStatus is made
\* with the first record's created_dt and the record is processed.
LoadRunFirst ==
    /\ loading.stage = "idle"
    /\ \/ loading' = [stage |-> "raised", read |-> <<>>,
                      error |-> "StopIteration"]
       \/ \E first \in LoadRecords :
            LET run == RunStatus(created_dt(first))
                call == process_record(run, first)
            IN  loading' =
                    IF call.error # "none"
                    THEN [stage |-> "raised", read |-> <<first>>,
                          error |-> call.error]
                    ELSE [stage |-> "reading", read |-> <<first>>,
                          run |-> call.state]
    /\ UNCHANGED <<run_vars, parser_vars, decoded, reader_vars, write_vars>>
    /\ UNCHANGED formatted

\* One turn of "for record in records: run.process_record(record)".
LoadRunNext ==
    /\ loading.stage = "reading"
    /\ Len(loading.read) < MaxLogRecords
    /\ \E record \in LoadRecords :
        LET call == process_record(loading.run, record)
        IN  loading' =
                IF call.error # "none"
                THEN [stage |-> "raised",
                      read |-> Append(loading.read, record),
                      error |-> call.error]
                ELSE [stage |-> "reading",
                      read |-> Append(loading.read, record),
                      run |-> call.state]
    /\ UNCHANGED <<run_vars, parser_vars, decoded, reader_vars, write_vars>>
    /\ UNCHANGED formatted

\* The generator is exhausted: add_fake_logs(run.logs, 5) is called, and
\* run is returned unless the call raises.
LoadRunEnd ==
    /\ loading.stage = "reading"
    /\ LET faked == add_fake_logs(loading.run.logs, InsertAt)
       IN  loading' =
                [stage |-> "ended", read |-> loading.read,
                 run |-> [loading.run EXCEPT !.logs = faked.logs],
                 error |-> faked.error]
    /\ UNCHANGED <<run_vars, parser_vars, decoded, reader_vars, write_vars>>
    /\ UNCHANGED formatted

\* load_run is called again on another file.
LoadRunAgain ==
    /\ loading.stage \in {"raised", "ended"}
    /\ loading' = [stage |-> "idle"]
    /\ UNCHANGED <<run_vars, parser_vars, decoded, reader_vars, write_vars>>
    /\ UNCHANGED formatted

LoadNext == LoadRunFirst \/ LoadRunNext \/ LoadRunEnd \/ LoadRunAgain

SpecLoad == Init /\ [][LoadNext]_vars

\* C32 as stated: when load_run has reduced every record of the file, it
\* returns a RunStatus whose started is the timestamp of the first record
\* and whose logs are exactly the records of the file, in file order.
C32_LoadedRunIsTheFile ==
    loading.stage = "ended" =>
        /\ loading.error = "none"
        /\ loading.run.started = created_dt(loading.read[1])
        /\ loading.run.logs = loading.read

\* ---------------------------------------------------------------------------
\* The formatter on builtin records (logger.py, JsonFormatter; models.py,
\* JsonLogRecord.from_builtin and FormattingErrorRecord.create).
\* ---------------------------------------------------------------------------

\* A logging.LogRecord: its event ("none" when it has none that is a
\* LogEvent), the attributes set on it besides exc_info, and whether
\* exc_info is the tuple of a caught exception or None.  levelno and created
\* are set on every LogRecord; message is set only once a logging.Formatter
\* has formatted the record.
LogRecord(event, attrs, exc) ==
    [event |-> event, attrs |-> attrs, exc_info |-> exc]

\* The value of exc_info on a record logged with an exception: the tuple of
\* the exception's class, the exception and its traceback.
ExcInfoTuple == "(type, exc, traceback)"

\* ExceptionInfo.from_exception(exc), held under the given field: the
\* type string is built from type.__qualname__.
from_exception(field, message) ==
    (field :> "{") @@ (Dotted(field, "message") :> message)
    @@ (Dotted(field, "type") :> "type")

\* cls._get_attrs(record): the dict of attributes, or AttributeError.  The
\* base reads message, levelno and created and converts exc_info when it is
\* set; a Snakemake class then takes every other field the record has and
\* raises for a field without default that the record lacks.
get_attrs(model, record) ==
    LET has == DOMAIN record.attrs
        base == [k \in {"message", "levelno", "created"} \cap has |->
                    record.attrs[k]]
                @@ (IF record.exc_info
                    THEN from_exception("exc_info", "boom")
                    ELSE EmptyDict)
        taken == [k \in (Fields(model) \cap has) \ DOMAIN base |->
                    record.attrs[k]]
                 @@ (IF record.exc_info THEN EmptyDict
                     ELSE ("exc_info" :> "null"))
    IN  IF "message" \notin has
        THEN DecodeError("AttributeError: message")
        ELSE IF model = "StandardLogRecord"
        THEN [kind |-> "attrs", attrs |-> base]
        ELSE IF ~(Required(model) \subseteq DOMAIN base \cup has)
        THEN DecodeError("AttributeError: missing required attribute")
        ELSE [kind |-> "attrs", attrs |-> base @@ taken]

\* JsonLogRecord.from_builtin(record): the class is chosen by the event, the
\* attributes are read and validated against the class.
from_builtin(record) ==
    LET model == IF record.event \in DOMAIN SNAKEMAKE_RECORD_MODELS
                 THEN SNAKEMAKE_RECORD_MODELS[record.event]
                 ELSE "StandardLogRecord"
        got == get_attrs(model, record)
    IN  IF got.kind = "error" THEN got
        ELSE validate_python(model, got.attrs)

\* FormattingErrorRecord._extract_partial(record): every field of
\* StandardLogRecord that the record has, exc_info as it is on the record.
extract_partial(record) ==
    [k \in {"message", "levelno", "created"} \cap DOMAIN record.attrs |->
        record.attrs[k]]
    @@ ("exc_info" :> IF record.exc_info THEN ExcInfoTuple ELSE "None")

\* FormattingErrorRecord.create(record, exc): the message is the
\* exception's, levelno, created and exc_info are left to their defaults.
create(record, exc) ==
    LET partial == extract_partial(record)
    IN  DecodedRecord("FormattingErrorRecord",
            [k \in {Dotted("record_partial", f) : f \in DOMAIN partial} |->
                partial[CHOOSE f \in DOMAIN partial :
                            Dotted("record_partial", f) = k]]
            @@ ("record_partial" :> "{")
            @@ ("message" :> exc.msg)
            @@ from_exception("exception", exc.msg),
            {"levelno", "created", "exc_info"})

\* JsonFormatter._get_json_record on a builtin record, validate being
\* False: the converted record, or the error record for the exception the
\* conversion raised.
get_json_record(record) ==
    IF from_builtin(record).kind = "error"
    THEN create(record, from_builtin(record))
    ELSE from_builtin(record)

\* JsonFormatter.format(record) on a builtin record: the lines of the text,
\* or the exception of dump_json, which is called outside the try block and
\* cannot serialize an exception class, an exception or a traceback.
format_builtin(record, indent) ==
    LET json_record == get_json_record(record)
        attrs == Attrs(json_record)
    IN  IF \E k \in DOMAIN attrs : attrs[k] = ExcInfoTuple
        THEN [kind |-> "error", msg |-> "PydanticSerializationError"]
        ELSE [kind |-> "text", text |-> format(json_record, indent)]

\* Number of builtin records given to the formatter.
MaxFormats == 2

\* The builtin records: without event, with the event of JobFinishedRecord
\* and of ProgressRecord; with and without message; with all or none of
\* the attributes of the event; logged with and without an exception.
LogRecords ==
    {LogRecord(event,
        [k \in {"levelno", "created"}
               \cup (IF message THEN {"message"} ELSE {})
               \cup (IF own THEN {"job_id", "done", "total"} ELSE {}) |-> "1"],
        exc) :
        <<event, message, own, exc>> \in
            {"none", "job_finished", "progress"}
                \X BOOLEAN \X BOOLEAN \X BOOLEAN}

\* StreamHandler.emit(record) with the formatter set: the text and the
\* terminator are written; an exception of format goes to handleError and
\* nothing is written.
Format ==
    /\ Len(formatted.calls) < MaxFormats
    /\ \E record \in LogRecords, indent \in BOOLEAN :
        LET result == format_builtin(record, indent)
            text == IF result.kind = "error" THEN <<>>
                    ELSE [i \in 1..Len(result.text) |->
                            result.text[i] \o <<NL>>]
        IN  formatted' =
                [calls |-> Append(formatted.calls,
                            [record |-> record, result |-> result,
                             text |-> text]),
                 stream |-> formatted.stream \o text]
    /\ UNCHANGED <<run_vars, parser_vars, decoded, reader_vars, loading>>
    /\ UNCHANGED write_vars

FormatterNext == Format

SpecFormatter == Init /\ [][FormatterNext]_vars

\* C31 as stated: every builtin record given to the formatter leaves
\* exactly one JSON object in the output, which reads back as the converted
\* record when the conversion succeeds and as a formatting_error record
\* when it fails, and format raises nothing.
C31_OneObjectPerRecord ==
    \A i \in 1..Len(formatted.calls) :
        LET call == formatted.calls[i]
            back == list_parse_logfile(JsonObjectParser, call.text, 0)
            converted == from_builtin(call.record)
        IN  /\ call.result.kind = "text"
            /\ Len(back) = 1
            /\ back[1].kind = "record"
            /\ IF converted.kind = "record"
               THEN /\ back[1].cls = converted.cls
                    /\ Attrs(back[1]) = Attrs(converted)
               ELSE back[1].cls = "FormattingErrorRecord"

=============================================================================
